---- MODULE Spec2Model ----
(***************************************************************************)
(* Verification model of the Ectocontrol Modbus controller core:           *)
(*   - ModbusProtocolManager (modbus_protocol_manager.py): the             *)
(*     reference-counted pool of shared ModbusProtocol clients;            *)
(*   - ModbusProtocol (modbus_protocol.py): the per-port client whose      *)
(*     exchanges are serialised by an asyncio.Lock;                        *)
(*   - BoilerDataUpdateCoordinator (coordinator.py): the poll with its     *)
(*     retry loop;                                                         *)
(*   - BoilerGateway (boiler_gateway.py): the write helpers and the typed  *)
(*     getters over the register snapshot;                                 *)
(*   - ContactSensorGateway and its coordinator (contact_gateway.py,       *)
(*     contact_coordinator.py).                                            *)
(* Each await of the Python code is a step boundary: the code between two  *)
(* awaits runs atomically on the asyncio event loop.                       *)
(***************************************************************************)
EXTENDS Integers, Sequences, FiniteSets, TLC

(* ------------------------------ bounds -------------------------------- *)
NumCallers == 3
MaxInst == 2
MaxOps == 2
MaxDrops == 1
MaxShutdowns == 1
NumTasks == 3
MaxCalls == 4
MaxBusDrops == 1
MaxArg == 2
MaxRetry == 2
MaxCycles == 2
MaxVal == 1
NumSetters == 2
MaxSets == 2
MaxCommands == 3
MaxRepeat == 2

Callers == 1..NumCallers
Ports == {"COM1", "COM2"}
Insts == 1..MaxInst
Tasks == 1..NumTasks
Vals == 0..MaxVal
Setters == 1..NumSetters

VARIABLES
    (* ModbusProtocolManager *)
    protocols,        \* self._protocols: port -> <<instance, reference count>>
    mlock,            \* self._lock of the manager: 0 free, c caller, -1 shutdown task
    client,           \* per ModbusProtocol instance: self.client is not None
    instPort,         \* per ModbusProtocol instance: self.port
    nextInst,         \* next ModbusProtocol instance to be constructed
    serialOpen,       \* per port: number of serial connections physically open
    pc,               \* per caller: position inside get_protocol / release_protocol
    held,             \* per caller: client returned by acquire and not yet released
    ops,              \* per caller: number of calls issued
    shutPc,           \* position of the shutdown task inside close_all
    toClose,          \* ports_to_close still to be visited by close_all
    drops,            \* number of disconnect() calls made outside the manager
    shutdowns,        \* number of close_all calls
    reconnects,       \* number of acquires that returned a client after a reconnect
    connectCalls,     \* per port: calls of ModbusProtocol.connect
    disconnectCalls,  \* per port: calls of ModbusProtocol.disconnect by the manager
    acqCalls,         \* per port: get_protocol calls issued
    relCalls,         \* per port: release_protocol calls issued
    phase,            \* per port: shape of the call history
    raced,            \* per port: an acquire arrived during the first connect
    relRaced,         \* per port: a release arrived while another was in progress
    (* ModbusProtocol: one shared client and the tasks that use it *)
    busClient,        \* self.client is not None
    plock,            \* self._lock of the client: 0 free, t the task that holds it
    pwaiters,         \* tasks waiting for self._lock, in arrival order
    tpc,              \* per task: position inside the request method
    top,              \* per task: the request method in progress, "none" between calls
    tres,             \* the last value returned by a request: <<method, value>>
    tcalls,           \* number of requests issued
    busDrops,         \* number of disconnect() calls on the client
    tseq,             \* per task: the number of its call while it waits or exchanges
    targ,             \* per task: count, number of values, or value of its call
    sent,             \* the arguments of the client.execute call in flight
    (* BoilerDataUpdateCoordinator and the gateway cache *)
    retry_count,      \* self.retry_count
    transport,        \* gateway.protocol: "modbus" (ModbusProtocol) or "stub" (a test double)
    cpc,              \* position inside _async_update_data
    attempt,          \* the loop variable `attempt`
    hist,             \* per attempt of this cycle: <<primary result, secondary result,
                      \*   what the secondary exchange did>>
    sleeps,           \* backoff sleeps of this cycle, in units of 0.5 s
    data,             \* the local dictionary `data`
    cache,            \* gateway.cache
    cacheAtStart,     \* gateway.cache as it was when the cycle began
    cycles,           \* number of completed poll cycles
    outcomes,         \* how each completed cycle ended, oldest first
    failFirst,        \* the primary read fails on its first failFirst calls of the cycle
    failKind,         \* how those calls fail
    thenKind,         \* what the primary read yields afterwards
    devVal,           \* the word the device holds in its registers during the cycle
    (* BoilerGateway setters and the adapter they write to *)
    device,           \* the adapter's circuit-enable register 0x0039
    spc,              \* per setter task: position inside the setter
    sreq,             \* per setter task: <<setter, bit, enabled>> of its last call
    snewv,            \* per setter task: the value handed to the write in progress
    sdev,             \* per setter task: the adapter's register when that setter was called
    sseq,             \* per setter task: arrival number of the write in progress
    swire,            \* per setter task: whether its last write exchange went through
    sres,             \* per setter task: the last value returned
    scalls,           \* number of setter calls issued
    overlapped,       \* the last calls of the setter tasks ran concurrently
    (* BoilerGateway: the CH setpoint and the typed getters *)
    ch_setpoint_cache, \* self._ch_setpoint_cache: <<>> for None, <<v>> for v tenths of a degree
    setpc,            \* position inside set_ch_setpoint
    pending,          \* the raw value of the last set_ch_setpoint while no snapshot
                      \*   has been assigned since, else <<>>
    lastStored,       \* the value most recently cached by a decode or by the setter
    got,              \* <<getter, value>> of the last getter call since the last
                      \*   change of the snapshot or call of the setter
    gcalls,           \* how many times in a row that getter has been called
    sticky_before,    \* self._ch_setpoint_cache as it was when the set_ch_setpoint
                      \*   call in progress began, <<>> between calls
    set_result,       \* what the last set_ch_setpoint returned: "none", "true", "false"
    (* ContactSensorGateway and its coordinator *)
    channel_count,    \* gateway.channel_count: <<>> for None, <<n>> for n
    ccache,           \* gateway.cache of the contact gateway
    kpc,              \* position inside the contact coordinator's _async_update_data
    klast,            \* how the last contact poll ended: "none", "success", "failed"
    kdata,            \* the dictionary the last successful contact poll returned
    kgot,             \* <<channel, value, how>> of the last get_channel_state call since
                      \*   the last poll; how is "returned" or "ValueError"
    (* BoilerGateway: the adapter commands *)
    mpc,              \* position inside reboot_adapter / reset_boiler_errors
    mkind,            \* which of the two commands the last call was
    mreq,             \* the requests the last call has made on the client
    mwraw,            \* what the write exchange of the last call did
    mrraw,            \* what the read exchange of the last call did
    mcode,            \* result_code of the last call: <<>> for None
    mret,             \* the value the last call returned: "none", "true", "false"
    mcalls,           \* number of command calls issued
    (* device router *)
    dev_word,         \* register 0x0003 of the device: type byte, channel byte
    rpc,              \* position inside create_device_gateway
    rraw,             \* what the read of 0x0000..0x0003 did in the last call
    routed,           \* what the last call produced: a gateway class or an exception
    (* async_setup_entry *)
    setup_entry,      \* the config entry of the latest async_setup_entry call, 0 for none
    setup_stage,      \* where that call is: "none", "get_protocol", "detect", "failed"
    setup_why,        \* what made it fail: "none", "get_protocol", "TypeError"
    ref_before        \* the reference count of its port when it was called

poolVars == <<protocols, mlock, client, instPort, nextInst, serialOpen, pc, held, ops,
              shutPc, toClose, drops, shutdowns, reconnects, connectCalls,
              disconnectCalls, acqCalls, relCalls, phase, raced, relRaced>>

busVars == <<busClient, plock, pwaiters, tpc, top, tres, tcalls, busDrops, tseq, targ, sent>>

pollVars == <<retry_count, transport, cpc, attempt, hist, sleeps, data, cache, cacheAtStart, cycles, outcomes,
              failFirst, failKind, thenKind, devVal>>

gwVars == <<device, spc, sreq, snewv, sdev, sseq, swire, sres, scalls, overlapped>>

snapVars == <<ch_setpoint_cache, setpc, pending, lastStored, got, gcalls, sticky_before,
             set_result>>

contactVars == <<channel_count, ccache, kpc, klast, kdata, kgot>>

cmdVars == <<mpc, mkind, mreq, mwraw, mrraw, mcode, mret, mcalls>>

routerVars == <<dev_word, rpc, rraw, routed>>

setupVars == <<setup_entry, setup_stage, setup_why, ref_before>>

extraVars == <<cmdVars, routerVars, setupVars>>

restVars == <<gwVars, snapVars, contactVars, extraVars>>

vars == <<poolVars, busVars, pollVars, restVars>>

(* --------------------------- initial states ---------------------------- *)

EmptyPool == [p \in {} |-> <<0, 0>>]

\* ModbusProtocolManager.__init__: an empty dictionary and a free lock
PoolInit ==
    /\ protocols = EmptyPool
    /\ mlock = 0
    /\ client = [i \in Insts |-> FALSE]
    /\ instPort = [i \in Insts |-> "COM1"]
    /\ nextInst = 1
    /\ serialOpen = [p \in Ports |-> 0]
    /\ pc = [c \in Callers |-> "idle"]
    /\ held = [c \in Callers |-> 0]
    /\ ops = [c \in Callers |-> 0]
    /\ shutPc = "idle"
    /\ toClose = {}
    /\ drops = 0
    /\ shutdowns = 0
    /\ reconnects = 0
    /\ connectCalls = [p \in Ports |-> 0]
    /\ disconnectCalls = [p \in Ports |-> 0]
    /\ acqCalls = [p \in Ports |-> 0]
    /\ relCalls = [p \in Ports |-> 0]
    /\ phase = [p \in Ports |-> "fresh"]
    /\ raced = [p \in Ports |-> FALSE]
    /\ relRaced = [p \in Ports |-> FALSE]

\* A ModbusProtocol as the pool hands it out: connected, its lock free
BusInit ==
    /\ busClient = TRUE
    /\ plock = 0
    /\ pwaiters = <<>>
    /\ tpc = [t \in Tasks |-> "idle"]
    /\ top = [t \in Tasks |-> "none"]
    /\ tres = <<"none", "unset">>
    /\ tcalls = 0
    /\ busDrops = 0
    /\ tseq = [t \in Tasks |-> 0]
    /\ targ = [t \in Tasks |-> 0]
    /\ sent = <<>>

\* BoilerGateway.__init__ (empty cache) and a coordinator between two cycles
PollIdle ==
    /\ cpc = "idle"
    /\ attempt = 0
    /\ hist = <<>>
    /\ sleeps = <<>>
    /\ data = [a \in {} |-> 0]
    /\ cache = [a \in {} |-> 0]
    /\ cacheAtStart = [a \in {} |-> 0]
    /\ cycles = 0
    /\ outcomes = <<>>
    /\ failFirst = 0
    /\ failKind = "ok"
    /\ thenKind = "ok"
    /\ devVal = 0

\* BoilerDataUpdateCoordinator.__init__: retry_count as validated by the
\* config flow (0..10), over a real client or over a test double
PollInit ==
    /\ retry_count \in 0..MaxRetry
    /\ transport \in {"modbus", "stub"}
    /\ PollIdle

PollParked ==
    /\ retry_count = 0
    /\ transport = "modbus"
    /\ PollIdle

NumCircuitBits == 2
CircuitBits == 0..(NumCircuitBits - 1)
CEVals == 0..(2^NumCircuitBits - 1)

\* No setter has been called yet
GwIdle ==
    /\ spc = [t \in Setters |-> "idle"]
    /\ sreq = [t \in Setters |-> <<"none", 0, FALSE>>]
    /\ snewv = [t \in Setters |-> 0]
    /\ sdev = [t \in Setters |-> 0]
    /\ sseq = [t \in Setters |-> 0]
    /\ swire = [t \in Setters |-> "none"]
    /\ sres = [t \in Setters |-> "none"]
    /\ scalls = 0
    /\ overlapped = FALSE

GwParked == device = 0 /\ GwIdle

\* BoilerGateway.__init__: no setpoint cached, no getter called yet
SnapInit ==
    /\ ch_setpoint_cache = <<>>
    /\ setpc = "idle"
    /\ pending = <<>>
    /\ lastStored = <<>>
    /\ got = <<"none", <<>> >>
    /\ gcalls = 0
    /\ sticky_before = <<>>
    /\ set_result = "none"

\* ContactSensorGateway.__init__ and a coordinator that has not polled yet
ContactIdle ==
    /\ ccache = [a \in {} |-> 0]
    /\ kpc = "idle"
    /\ klast = "none"
    /\ kdata = [a \in {} |-> 0]
    /\ kgot = <<0, <<>>, "none">>

ContactParked == channel_count = <<>> /\ ContactIdle

\* BoilerGateway with no command called yet
CommandIdle ==
    /\ mpc = "idle"
    /\ mkind = "none"
    /\ mreq = <<>>
    /\ mwraw = "none"
    /\ mrraw = "none"
    /\ mcode = <<>>
    /\ mret = "none"
    /\ mcalls = 0

\* create_device_gateway not called yet
RouterIdle ==
    /\ rpc = "idle"
    /\ rraw = "none"
    /\ routed = "none"

\* No config entry has been set up yet
SetupIdle ==
    /\ setup_entry = 0
    /\ setup_stage = "none"
    /\ setup_why = "none"
    /\ ref_before = 0

ExtraParked == CommandIdle /\ dev_word = 0 /\ RouterIdle /\ SetupIdle

RestParked == GwParked /\ SnapInit /\ ContactParked /\ ExtraParked


(* ------------------------ ModbusProtocolManager ------------------------ *)

\* The port of a config entry, entry.data[CONF_PORT]: the last entry is on
\* COM2, all the others share COM1.
portOf(c) == IF c = NumCallers THEN "COM2" ELSE "COM1"

\* ModbusProtocol.is_connected
is_connected_never(i) == FALSE
is_connected(i) == client[i]

\* `port in self._protocols` as tested by get_protocol
entry_exists_never(p) == FALSE
entry_exists(p) == p \in DOMAIN protocols

\* ModbusProtocolManager.is_port_in_use
is_port_in_use(p) == p \in DOMAIN protocols

\* ModbusProtocolManager.get_reference_count
get_reference_count(p) == IF p \notin DOMAIN protocols THEN 0 ELSE protocols[p][2]

\* release_protocol: `if ref_count > 1` (other users remain)
other_users_remain_always(ref_count) == ref_count > 0
other_users_remain_any(ref_count) == TRUE
other_users_remain(ref_count) == ref_count > 1

\* get_protocol: `if not connected: raise ConnectionError` after the reconnect
reconnect_raises_never(connected) == FALSE
reconnect_raises(connected) == ~connected

\* get_protocol: `if not connected: raise ConnectionError` after the first
\* connect of a new instance
connect_failed_never(connected) == FALSE
connect_failed(connected) == ~connected

\* close_all: `ports_to_close = list(self._protocols.keys())`
ports_to_close_unreferenced == {p \in DOMAIN protocols : protocols[p][2] <= 1}
ports_to_close == DOMAIN protocols

MidAcquire(p) == {c \in Callers : pc[c] \in {"acq_wait", "connecting", "reconnecting"} /\ portOf(c) = p}
MidRelease(p) == {c \in Callers : pc[c] \in {"rel_wait", "disconnecting"} /\ portOf(c) = p}
Holders(p) == {c \in Callers : held[c] # 0 /\ portOf(c) = p}

\* asyncio.Lock of the manager: acquire() returns at once when the lock is
\* free and nobody waits; otherwise the task waits for a release.
ManagerWaiting == (\E c \in Callers : pc[c] \in {"acq_wait", "rel_wait"}) \/ shutPc = "wait"
ManagerLockFast == mlock = 0 /\ ~ManagerWaiting

\* ModbusProtocol.connect on instance i: serial.Serial(...) + RtuMaster.open()
\* in the executor; connected is whether the open succeeded.
connect(i, connected) ==
    /\ client' = [client EXCEPT ![i] = connected]
    /\ serialOpen' = IF connected THEN [serialOpen EXCEPT ![instPort[i]] = @ + 1]
                     ELSE serialOpen

\* ModbusProtocol.disconnect on instance i: no-op without a client, otherwise
\* client.close() in the executor and self.client = None.
disconnect(i) ==
    /\ client' = [client EXCEPT ![i] = FALSE]
    /\ serialOpen' = IF client[i] THEN [serialOpen EXCEPT ![instPort[i]] = @ - 1]
                     ELSE serialOpen

\* get_protocol from `async with self._lock` to its first await or return.
get_protocol_body(c) ==
    LET p == portOf(c) IN
    IF entry_exists(p)
    THEN LET protocol == protocols[p][1]
             ref_count == protocols[p][2]
         IN /\ protocols' = [protocols EXCEPT ![p] = <<protocol, ref_count + 1>>]
            /\ IF ~is_connected(protocol)
               THEN /\ pc' = [pc EXCEPT ![c] = "reconnecting"]
                    /\ mlock' = c
                    /\ connectCalls' = [connectCalls EXCEPT ![p] = @ + 1]
                    /\ UNCHANGED held
               ELSE /\ pc' = [pc EXCEPT ![c] = "idle"]
                    /\ mlock' = 0
                    /\ held' = [held EXCEPT ![c] = protocol]
                    /\ UNCHANGED connectCalls
            /\ UNCHANGED <<instPort, nextInst>>
    ELSE /\ nextInst <= MaxInst
         /\ instPort' = [instPort EXCEPT ![nextInst] = p]
         /\ nextInst' = nextInst + 1
         /\ pc' = [pc EXCEPT ![c] = "connecting"]
         /\ mlock' = c
         /\ connectCalls' = [connectCalls EXCEPT ![p] = @ + 1]
         /\ UNCHANGED <<protocols, held>>

\* get_protocol(port) is called: it runs up to the first await, or waits
\* for the manager lock.
get_protocol_enter(c) ==
    /\ pc[c] = "idle" /\ ops[c] < MaxOps
    /\ ops' = [ops EXCEPT ![c] = @ + 1]
    /\ acqCalls' = [acqCalls EXCEPT ![portOf(c)] = @ + 1]
    /\ phase' = [phase EXCEPT ![portOf(c)] =
                   IF @ \in {"fresh", "acquiring"} THEN "acquiring" ELSE "other"]
    /\ raced' = [raced EXCEPT ![portOf(c)] =
                   @ \/ \E d \in Callers : pc[d] = "connecting" /\ portOf(d) = portOf(c)]
    /\ IF ManagerLockFast
       THEN get_protocol_body(c)
       ELSE /\ pc' = [pc EXCEPT ![c] = "acq_wait"]
            /\ UNCHANGED <<protocols, mlock, held, instPort, nextInst, connectCalls>>
    /\ UNCHANGED <<client, serialOpen, shutPc, toClose, drops, shutdowns, reconnects,
                   disconnectCalls, relCalls, relRaced>>

\* A config entry that holds no client calls get_protocol(port).
get_protocol_call(c) ==
    /\ held[c] = 0
    /\ get_protocol_enter(c)
    /\ UNCHANGED <<busVars, pollVars, restVars>>

\* A waiting get_protocol obtains the manager lock.
get_protocol_locked(c) ==
    /\ pc[c] = "acq_wait" /\ mlock = 0
    /\ get_protocol_body(c)
    /\ UNCHANGED <<client, serialOpen, ops, shutPc, toClose, drops, shutdowns, reconnects,
                   disconnectCalls, acqCalls, relCalls, phase, raced, relRaced>>
    /\ UNCHANGED <<busVars, pollVars, restVars>>

\* The first connect returns: store the entry with count 1, or raise.
get_protocol_connect_done(c, connected) ==
    /\ pc[c] = "connecting"
    /\ connect(nextInst - 1, connected)
    /\ IF connect_failed(connected)
       THEN /\ phase' = [phase EXCEPT ![portOf(c)] = "other"]
            /\ UNCHANGED <<protocols, held>>
       ELSE /\ protocols' = [q \in DOMAIN protocols \cup {portOf(c)} |->
                               IF q = portOf(c) THEN <<nextInst - 1, 1>> ELSE protocols[q]]
            /\ held' = [held EXCEPT ![c] = nextInst - 1]
            /\ UNCHANGED phase
    /\ pc' = [pc EXCEPT ![c] = "idle"]
    /\ mlock' = 0
    /\ UNCHANGED <<instPort, nextInst, ops, shutPc, toClose, drops, shutdowns, reconnects,
                   connectCalls, disconnectCalls, acqCalls, relCalls, raced, relRaced>>
    /\ UNCHANGED <<busVars, pollVars, restVars>>

\* The reconnect of a stored, disconnected client returns.
get_protocol_reconnect_done(c, connected) ==
    /\ pc[c] = "reconnecting"
    /\ connect(protocols[portOf(c)][1], connected)
    /\ IF reconnect_raises(connected)
       THEN UNCHANGED <<held, reconnects>>
       ELSE /\ held' = [held EXCEPT ![c] = protocols[portOf(c)][1]]
            /\ reconnects' = reconnects + 1
    /\ phase' = [phase EXCEPT ![portOf(c)] = IF connected THEN @ ELSE "other"]
    /\ pc' = [pc EXCEPT ![c] = "idle"]
    /\ mlock' = 0
    /\ UNCHANGED <<protocols, instPort, nextInst, ops, shutPc, toClose, drops, shutdowns,
                   connectCalls, disconnectCalls, acqCalls, relCalls, raced, relRaced>>
    /\ UNCHANGED <<busVars, pollVars, restVars>>

\* release_protocol from `async with self._lock` to its await or return.
release_protocol_body(c) ==
    LET p == portOf(c) IN
    IF p \notin DOMAIN protocols
       THEN /\ pc' = [pc EXCEPT ![c] = "idle"]
            /\ mlock' = 0
            /\ held' = [held EXCEPT ![c] = 0]
            /\ UNCHANGED <<protocols, disconnectCalls>>
       ELSE LET protocol == protocols[p][1]
                ref_count == protocols[p][2]
            IN IF other_users_remain(ref_count)
               THEN /\ protocols' = [protocols EXCEPT ![p] = <<protocol, ref_count - 1>>]
                    /\ pc' = [pc EXCEPT ![c] = "idle"]
                    /\ mlock' = 0
                    /\ held' = [held EXCEPT ![c] = 0]
                    /\ UNCHANGED disconnectCalls
               ELSE /\ pc' = [pc EXCEPT ![c] = "disconnecting"]
                    /\ mlock' = c
                    /\ disconnectCalls' = [disconnectCalls EXCEPT ![p] = @ + 1]
                    /\ UNCHANGED <<protocols, held>>

\* A config entry calls release_protocol(port).
release_protocol_call(c) ==
    /\ pc[c] = "idle" /\ ops[c] < MaxOps
    /\ ops' = [ops EXCEPT ![c] = @ + 1]
    /\ relCalls' = [relCalls EXCEPT ![portOf(c)] = @ + 1]
    /\ phase' = [phase EXCEPT ![portOf(c)] =
                   IF @ = "releasing" \/ (@ = "acquiring" /\ MidAcquire(portOf(c)) = {})
                   THEN "releasing" ELSE "other"]
    /\ relRaced' = [relRaced EXCEPT ![portOf(c)] = @ \/ MidRelease(portOf(c)) # {}]
    /\ IF ManagerLockFast
       THEN release_protocol_body(c)
       ELSE /\ pc' = [pc EXCEPT ![c] = "rel_wait"]
            /\ UNCHANGED <<protocols, mlock, held, disconnectCalls>>
    /\ UNCHANGED <<client, instPort, nextInst, serialOpen, shutPc, toClose, drops,
                   shutdowns, reconnects, connectCalls, acqCalls, raced>>
    /\ UNCHANGED <<busVars, pollVars, restVars>>

\* A waiting release_protocol obtains the manager lock.
release_protocol_locked(c) ==
    /\ pc[c] = "rel_wait" /\ mlock = 0
    /\ release_protocol_body(c)
    /\ UNCHANGED <<client, instPort, nextInst, serialOpen, ops, shutPc, toClose, drops,
                   shutdowns, reconnects, connectCalls, acqCalls, relCalls, phase, raced, relRaced>>
    /\ UNCHANGED <<busVars, pollVars, restVars>>

\* The disconnect of the last reference returns: the entry is deleted.
release_protocol_disconnect_done(c) ==
    /\ pc[c] = "disconnecting"
    /\ disconnect(protocols[portOf(c)][1])
    /\ protocols' = [q \in DOMAIN protocols \ {portOf(c)} |-> protocols[q]]
    /\ held' = [held EXCEPT ![c] = 0]
    /\ pc' = [pc EXCEPT ![c] = "idle"]
    /\ mlock' = 0
    /\ UNCHANGED <<instPort, nextInst, ops, shutPc, toClose, drops, shutdowns,
                   reconnects, connectCalls, disconnectCalls, acqCalls, relCalls, phase,
                   raced, relRaced>>
    /\ UNCHANGED <<busVars, pollVars, restVars>>

\* close_all from `async with self._lock` to the first disconnect.
close_all_body ==
    IF DOMAIN protocols = {}
    THEN /\ shutPc' = "idle"
         /\ mlock' = 0
         /\ UNCHANGED toClose
    ELSE /\ shutPc' = "closing"
         /\ mlock' = -1
         /\ toClose' = ports_to_close

\* The homeassistant_stop listener calls close_all.
close_all_call ==
    /\ shutPc = "idle" /\ shutdowns < MaxShutdowns
    /\ shutdowns' = shutdowns + 1
    /\ phase' = [p \in Ports |-> "other"]
    /\ IF ManagerLockFast
       THEN close_all_body
       ELSE /\ shutPc' = "wait"
            /\ UNCHANGED <<mlock, toClose>>
    /\ UNCHANGED <<protocols, client, instPort, nextInst, serialOpen, pc, held, ops, drops,
                   reconnects, connectCalls, disconnectCalls, acqCalls, relCalls, raced, relRaced>>
    /\ UNCHANGED <<busVars, pollVars, restVars>>

\* The waiting close_all obtains the manager lock.
close_all_locked ==
    /\ shutPc = "wait" /\ mlock = 0
    /\ close_all_body
    /\ UNCHANGED <<protocols, client, instPort, nextInst, serialOpen, pc, held, ops, drops,
                   shutdowns, reconnects, connectCalls, disconnectCalls, acqCalls,
                   relCalls, phase, raced, relRaced>>
    /\ UNCHANGED <<busVars, pollVars, restVars>>

\* One iteration of the loop over ports_to_close; after the last one the
\* dictionary is cleared and the lock released.
close_all_disconnect(p) ==
    /\ shutPc = "closing" /\ p \in toClose
    /\ disconnect(protocols[p][1])
    /\ disconnectCalls' = [disconnectCalls EXCEPT ![p] = @ + 1]
    /\ toClose' = toClose \ {p}
    /\ IF toClose = {p}
       THEN /\ protocols' = EmptyPool
            /\ mlock' = 0
            /\ shutPc' = "idle"
       ELSE UNCHANGED <<protocols, mlock, shutPc>>
    /\ UNCHANGED <<instPort, nextInst, pc, held, ops, drops, shutdowns, reconnects,
                   connectCalls, acqCalls, relCalls, phase, raced, relRaced>>
    /\ UNCHANGED <<busVars, pollVars, restVars>>

\* A holder of the shared client calls ModbusProtocol.disconnect on it.
disconnect_by_holder(c) ==
    /\ pc[c] = "idle" /\ held[c] # 0 /\ client[held[c]] /\ drops < MaxDrops
    /\ disconnect(held[c])
    /\ drops' = drops + 1
    /\ phase' = [phase EXCEPT ![portOf(c)] = "other"]
    /\ UNCHANGED <<protocols, mlock, instPort, nextInst, pc, held, ops, shutPc, toClose,
                   shutdowns, reconnects, connectCalls, disconnectCalls, acqCalls,
                   relCalls, raced, relRaced>>
    /\ UNCHANGED <<busVars, pollVars, restVars>>

InitPool == PoolInit /\ BusInit /\ PollParked /\ RestParked

NextPool ==
    \/ \E c \in Callers : get_protocol_call(c)
    \/ \E c \in Callers : get_protocol_locked(c)
    \/ \E c \in Callers, connected \in BOOLEAN : get_protocol_connect_done(c, connected)
    \/ \E c \in Callers, connected \in BOOLEAN : get_protocol_reconnect_done(c, connected)
    \/ \E c \in Callers : release_protocol_call(c)
    \/ \E c \in Callers : release_protocol_locked(c)
    \/ \E c \in Callers : release_protocol_disconnect_done(c)
    \/ close_all_call
    \/ close_all_locked
    \/ \E p \in Ports : close_all_disconnect(p)
    \/ \E c \in Callers : disconnect_by_holder(c)

SpecPool == InitPool /\ [][NextPool]_vars

(* ------------------- claims on the connection pool --------------------- *)

\* Callers counted as acquirers of port p: those holding a client that an
\* acquire returned and that they have not released, and those whose acquire
\* has already added its reference and has not returned yet.
LiveAcquirers(p) ==
    Holders(p) \cup {c \in Callers : pc[c] = "reconnecting" /\ portOf(c) = p}

\* C1: the reference count stored for a port never exceeds the number of
\* callers whose acquire of that port returned a client and who have not yet
\* released it; an acquire that raised counts as no acquirer.
C1_RefCountWithinLiveAcquirers ==
    \A p \in Ports : get_reference_count(p) <= Cardinality(LiveAcquirers(p))

\* C2: for each port at most one physical serial connection is open at any
\* time, under every interleaving of acquire, release and shutdown calls.
C2_OneConnectionPerPort ==
    \A p \in Ports : serialOpen[p] <= 1

C2_Witness ==
    \E p \in Ports : serialOpen[p] = 1 /\ get_reference_count(p) >= 2 /\ shutPc = "wait"

\* C3: N acquire calls for one previously unused port whose serial open
\* succeeds, issued concurrently, make exactly one connect call; once all have
\* returned, every caller holds the one stored client and the count is N.
C3_ConcurrentAcquireOneConnect ==
    \A p \in Ports :
        phase[p] = "acquiring" =>
            /\ connectCalls[p] <= 1
            /\ MidAcquire(p) = {} =>
                  /\ connectCalls[p] = 1
                  /\ is_port_in_use(p)
                  /\ get_reference_count(p) = acqCalls[p]
                  /\ Cardinality(Holders(p)) = acqCalls[p]
                  /\ \A c \in Holders(p) : held[c] = protocols[p][1]

C3_Witness ==
    \E p \in Ports :
        /\ phase[p] = "acquiring" /\ raced[p] /\ MidAcquire(p) = {}
        /\ acqCalls[p] >= 2 /\ get_reference_count(p) = acqCalls[p]

\* C4: after N successful acquires of a port, N release calls issued
\* concurrently make exactly one disconnect call, remove the entry and leave
\* a reference count of 0.
C4_ConcurrentReleaseOneDisconnect ==
    \A p \in Ports :
        phase[p] = "releasing" =>
            /\ disconnectCalls[p] <= 1
            /\ (relCalls[p] = acqCalls[p] /\ MidRelease(p) = {}) =>
                  /\ disconnectCalls[p] = 1
                  /\ ~is_port_in_use(p)
                  /\ get_reference_count(p) = 0

C4_Witness ==
    \E p \in Ports :
        /\ phase[p] = "releasing" /\ relRaced[p] /\ MidRelease(p) = {}
        /\ acqCalls[p] >= 2 /\ relCalls[p] = acqCalls[p] /\ disconnectCalls[p] = 1

\* A step of get_protocol that runs from the lock to the first await or return
AcquireRuns(c) ==
    \/ pc[c] = "idle" /\ ops'[c] # ops[c] /\ pc'[c] # "acq_wait"
          /\ acqCalls'[portOf(c)] # acqCalls[portOf(c)]
    \/ pc[c] = "acq_wait" /\ pc'[c] # "acq_wait"

\* C5: an acquire that finds a stored client disconnected attempts a reconnect
\* before returning it; if the reconnect fails the acquire raises; no caller
\* is ever handed a disconnected client by acquire.
C5_AcquireReconnectsOrRaises ==
    [][\A c \in Callers :
          /\ (AcquireRuns(c) /\ is_port_in_use(portOf(c))
                /\ ~client[protocols[portOf(c)][1]]) =>
                 /\ pc'[c] = "reconnecting"
                 /\ held'[c] = 0
                 /\ connectCalls'[portOf(c)] = connectCalls[portOf(c)] + 1
          /\ (pc[c] = "reconnecting" /\ pc'[c] = "idle") =>
                 ((held'[c] # 0) = client'[protocols[portOf(c)][1]])
          /\ (held[c] = 0 /\ held'[c] # 0) => client'[held'[c]]
      ]_vars

C5_Witness ==
    \E c \in Callers :
        /\ reconnects >= 1 /\ drops >= 1
        /\ pc[c] = "idle" /\ held[c] # 0 /\ client[held[c]]
        /\ is_port_in_use(portOf(c)) /\ held[c] = protocols[portOf(c)][1]

\* A step of release_protocol that runs from the lock to its await or return
ReleaseRuns(c) ==
    \/ pc[c] = "idle" /\ ops'[c] # ops[c] /\ pc'[c] # "rel_wait"
          /\ relCalls'[portOf(c)] # relCalls[portOf(c)]
    \/ pc[c] = "rel_wait" /\ pc'[c] # "rel_wait"

\* C22: the reference count of a port is never negative, and a release of a
\* port that has no entry returns normally, issues no disconnect and leaves
\* every entry, every count and every client as they were.
C22_ReleaseUnknownPortIsNoOp ==
    /\ [](\A p \in Ports : get_reference_count(p) >= 0)
    /\ [][\A c \in Callers :
            (ReleaseRuns(c) /\ ~is_port_in_use(portOf(c))) =>
                /\ pc'[c] = "idle"
                /\ protocols' = protocols
                /\ client' = client
                /\ serialOpen' = serialOpen
                /\ disconnectCalls' = disconnectCalls
         ]_vars

C22_Witness ==
    \E p, q \in Ports :
        /\ p # q
        /\ acqCalls[p] = 0 /\ relCalls[p] >= 1 /\ MidRelease(p) = {}
        /\ is_port_in_use(q) /\ get_reference_count(q) = 2
        /\ client[protocols[q][1]] /\ disconnectCalls[q] = 0

\* C23: when close_all returns, the client of every entry it found has been
\* disconnected, whatever the entry's reference count was, and the pool is
\* empty: every port has reference count 0 and is not in use.
C23_CloseAllEmptiesPool ==
    [][(shutPc = "closing" /\ shutPc' = "idle") =>
          /\ \A p \in DOMAIN protocols : ~client'[protocols[p][1]]
          /\ protocols' = EmptyPool
          /\ \A p \in Ports : p \notin DOMAIN protocols'
      ]_vars

C23_Witness ==
    /\ shutdowns >= 1 /\ shutPc = "idle" /\ protocols = EmptyPool
    /\ \A p \in Ports : relCalls[p] = 0 /\ get_reference_count(p) = 0
    /\ Cardinality(Holders("COM1")) = 2 /\ disconnectCalls["COM1"] = 1
    /\ Cardinality(Holders("COM2")) = 1 /\ disconnectCalls["COM2"] = 1
    /\ \A c \in Callers : ~client[held[c]]

\* C24: a release that finds a count above 1 only decrements it and issues
\* no disconnect; a release that finds count 1 disconnects the client and
\* removes the entry; and a release by a caller that holds a client never
\* disconnects a client that another caller still holds.
C24_ReleaseKeepsSharedClient ==
    [][\A c \in Callers :
          /\ (ReleaseRuns(c) /\ is_port_in_use(portOf(c))) =>
                LET p == portOf(c) IN
                IF protocols[p][2] > 1
                THEN /\ protocols' = [protocols EXCEPT ![p] = <<@[1], @[2] - 1>>]
                     /\ client' = client
                     /\ disconnectCalls' = disconnectCalls
                ELSE /\ pc'[c] = "disconnecting"
                     /\ disconnectCalls'[p] = disconnectCalls[p] + 1
          /\ (pc[c] = "disconnecting" /\ pc'[c] = "idle") =>
                /\ ~client'[protocols[portOf(c)][1]]
                /\ portOf(c) \notin DOMAIN protocols'
          /\ (ReleaseRuns(c) /\ held[c] # 0 /\ pc'[c] = "disconnecting") =>
                \A d \in Callers \ {c} : held[d] # protocols[portOf(c)][1]
      ]_vars

\* C25: an acquire whose first connect fails raises and stores no entry:
\* when it returns the caller holds nothing, the port is not in use and its
\* count is 0; an acquire that finds no entry always makes a fresh connect
\* on a new client.
C25_FailedFirstConnectStoresNothing ==
    [][\A c \in Callers :
          /\ (pc[c] = "connecting" /\ pc'[c] = "idle" /\ ~client'[nextInst - 1]) =>
                /\ held'[c] = 0
                /\ portOf(c) \notin DOMAIN protocols'
                /\ protocols' = protocols
          /\ (AcquireRuns(c) /\ ~is_port_in_use(portOf(c))) =>
                /\ pc'[c] = "connecting"
                /\ nextInst' = nextInst + 1
                /\ instPort'[nextInst] = portOf(c)
                /\ connectCalls'[portOf(c)] = connectCalls[portOf(c)] + 1
      ]_vars

C25_Witness ==
    \E c \in Callers :
        /\ pc[c] = "connecting" /\ connectCalls[portOf(c)] = 2
        /\ relCalls[portOf(c)] = 0 /\ shutdowns = 0
        /\ ~is_port_in_use(portOf(c)) /\ get_reference_count(portOf(c)) = 0

\* C40: once close_all has run and the port has been acquired anew, a
\* release by a caller whose acquisition dates from before the shutdown
\* leaves the new acquirer's entry alone: its count is not decremented and
\* its client is not disconnected.
StaleHolder(c) ==
    /\ shutdowns >= 1 /\ held[c] # 0
    /\ is_port_in_use(portOf(c)) /\ held[c] # protocols[portOf(c)][1]

C40_StaleReleaseLeavesNewEntry ==
    [][\A c \in Callers :
          (ReleaseRuns(c) /\ StaleHolder(c)) =>
              /\ is_port_in_use(portOf(c))'
              /\ protocols'[portOf(c)] = protocols[portOf(c)]
              /\ pc'[c] # "disconnecting"
      ]_vars

(* ----------------------------- ModbusProtocol -------------------------- *)

Ops == {"read_registers", "read_input_registers", "write_registers", "write_register"}
ReadOps == {"read_registers", "read_input_registers"}

\* What client.execute can do on the wire: answer, stay silent, answer
\* garbage, or answer with a Modbus exception response.
ModbusErrors == {"illegal_function", "illegal_data_address", "illegal_data_value",
                 "slave_failure"}
TransportErrors == {"timeout", "invalid_response"}
WireOutcomes == {"ok"} \cup TransportErrors \cup ModbusErrors

\* The function code handed to client.execute by each request method
function_code_single(op) ==
    CASE op = "read_registers" -> 3
      [] op = "read_input_registers" -> 4
      [] op = "write_registers" -> 16
      [] op = "write_register" -> 6
function_code(op) ==
    CASE op = "read_registers" -> 3
      [] op = "read_input_registers" -> 4
      [] op = "write_registers" -> 16
      [] op = "write_register" -> 16

\* The quantity handed to client.execute: count, len(values), or 1
quantity(op, n) == IF op = "write_register" THEN 1 ELSE n

\* The output values handed to client.execute: none for a read, values for
\* write_registers, [value] for write_register
output_value(op, n) ==
    CASE op \in ReadOps -> <<>>
      [] op = "write_registers" -> [i \in 1..n |-> i]
      [] op = "write_register" -> <<n>>

\* The positional arguments of client.execute after slave and address
execute_args(op, n) == <<function_code(op), quantity(op, n), output_value(op, n)>>

\* read_registers / read_input_registers: list(result), or None from the
\* `except modbus.ModbusError` and the `except Exception` handlers.
read_registers_result(w) ==
    CASE w = "ok" -> "list"
      [] w \in ModbusErrors -> "none"
      [] OTHER -> "none"

\* write_register / write_registers: True, or False from the handlers.
write_register_result_unverified(w) == "true"
write_register_result(w) ==
    CASE w = "ok" -> "true"
      [] w \in ModbusErrors -> "false"
      [] OTHER -> "false"

request_result(op, w) ==
    IF op \in ReadOps THEN read_registers_result(w) ELSE write_register_result(w)

\* `if not self.client: return None` / `return False`; the same values come
\* out of the handlers when self.client is None inside the lock.
not_connected_result(op) == IF op \in ReadOps THEN "none" ELSE "false"

\* asyncio.Lock of the client: acquire() returns at once when the lock is
\* free and nobody waits; otherwise the task queues up.
ProtocolLockFast_unguarded == TRUE
ProtocolLockFast_barging == plock = 0
ProtocolLockFast == plock = 0 /\ pwaiters = <<>>

InFlight == {t \in Tasks : tpc[t] = "exchange"}

\* The value of self._lock once `async with self._lock` is left, by a return
\* or by an exception: free
lock_kept(t) == t
lock_released(t) == 0

\* A request method from `async with self._lock` to its await or return.
request_body(t, op, n, seq) ==
    IF ~busClient
    THEN /\ tpc' = [tpc EXCEPT ![t] = "idle"]
         /\ top' = [top EXCEPT ![t] = "none"]
         /\ tseq' = [tseq EXCEPT ![t] = 0]
         /\ targ' = [targ EXCEPT ![t] = 0]
         /\ tres' = <<op, not_connected_result(op)>>
         /\ plock' = lock_released(t)
         /\ UNCHANGED sent
    ELSE /\ tpc' = [tpc EXCEPT ![t] = "exchange"]
         /\ top' = [top EXCEPT ![t] = op]
         /\ tseq' = [tseq EXCEPT ![t] = seq]
         /\ targ' = [targ EXCEPT ![t] = n]
         /\ sent' = execute_args(op, n)
         /\ plock' = t
         /\ UNCHANGED tres

\* A task calls one of the four request methods of the shared client.
request_call(t, op, n) ==
    /\ tpc[t] = "idle" /\ tcalls < MaxCalls
    /\ tcalls' = tcalls + 1
    /\ IF ~busClient
       THEN /\ tres' = <<op, not_connected_result(op)>>
            /\ UNCHANGED <<tpc, top, plock, pwaiters, tseq, targ, sent>>
       ELSE IF ProtocolLockFast
            THEN /\ request_body(t, op, n, tcalls + 1)
                 /\ UNCHANGED pwaiters
            ELSE /\ tpc' = [tpc EXCEPT ![t] = "wait"]
                 /\ top' = [top EXCEPT ![t] = op]
                 /\ tseq' = [tseq EXCEPT ![t] = tcalls + 1]
                 /\ targ' = [targ EXCEPT ![t] = n]
                 /\ pwaiters' = Append(pwaiters, t)
                 /\ UNCHANGED <<plock, tres, sent>>
    /\ UNCHANGED <<busClient, busDrops>>
    /\ UNCHANGED <<poolVars, pollVars, restVars>>

\* The first waiter obtains the lock of the client.
request_locked(t) ==
    /\ tpc[t] = "wait" /\ plock = 0 /\ pwaiters # <<>> /\ Head(pwaiters) = t
    /\ pwaiters' = Tail(pwaiters)
    /\ request_body(t, top[t], targ[t], tseq[t])
    /\ UNCHANGED <<busClient, tcalls, busDrops>>
    /\ UNCHANGED <<poolVars, pollVars, restVars>>

\* client.execute returns or raises in the executor; the lock is released.
exchange_done(t, w) ==
    /\ tpc[t] = "exchange"
    /\ tpc' = [tpc EXCEPT ![t] = "idle"]
    /\ tres' = <<top[t], request_result(top[t], w)>>
    /\ top' = [top EXCEPT ![t] = "none"]
    /\ tseq' = [tseq EXCEPT ![t] = 0]
    /\ targ' = [targ EXCEPT ![t] = 0]
    /\ sent' = <<>>
    /\ plock' = lock_released(t)
    /\ UNCHANGED <<busClient, pwaiters, tcalls, busDrops>>
    /\ UNCHANGED <<poolVars, pollVars, restVars>>

\* ModbusProtocol.disconnect, called by the pool or by a holder: it does not
\* take self._lock.
bus_disconnect ==
    /\ busClient /\ busDrops < MaxBusDrops
    /\ busClient' = FALSE
    /\ busDrops' = busDrops + 1
    /\ UNCHANGED <<plock, pwaiters, tpc, top, tres, tcalls, tseq, targ, sent>>
    /\ UNCHANGED <<poolVars, pollVars, restVars>>

\* ModbusProtocol.connect on the disconnected client (the pool's reconnect).
bus_connect ==
    /\ ~busClient
    /\ busClient' = TRUE
    /\ UNCHANGED <<plock, pwaiters, tpc, top, tres, tcalls, busDrops, tseq, targ, sent>>
    /\ UNCHANGED <<poolVars, pollVars, restVars>>

InitBus == PoolInit /\ BusInit /\ PollParked /\ RestParked

NextBus ==
    \/ \E t \in Tasks, op \in Ops, n \in 1..MaxArg : request_call(t, op, n)
    \/ \E t \in Tasks : request_locked(t)
    \/ \E t \in Tasks, w \in WireOutcomes : exchange_done(t, w)
    \/ bus_disconnect
    \/ bus_connect

SpecBus == InitBus /\ [][NextBus]_vars

\* The shutdown path: the coordinators' polls keep issuing read_registers
\* calls (coordinator.py 82-96) while close_all disconnects the client.
\* client.execute returns or raises within the serial timeout, and the
\* event loop resumes the waiter that the released lock woke up.
poll_read(t) == \E n \in 1..MaxArg : request_call(t, "read_registers", n)

NextShutdown ==
    \/ \E t \in Tasks : poll_read(t)
    \/ \E t \in Tasks : request_locked(t)
    \/ \E t \in Tasks, w \in WireOutcomes : exchange_done(t, w)
    \/ bus_disconnect

SpecShutdown ==
    /\ InitBus
    /\ [][NextShutdown]_vars
    /\ WF_vars(\E t \in Tasks, w \in WireOutcomes : exchange_done(t, w))
    /\ WF_vars(\E t \in Tasks : request_locked(t))

\* C6: on one port's client at most one request/response exchange is in
\* flight at any time, for any number of concurrent callers.
C6_OneExchangeInFlight ==
    /\ Cardinality(InFlight) <= 1
    /\ \A t \in InFlight : plock = t

C6_Witness ==
    \E t \in Tasks :
        /\ tpc[t] = "exchange" /\ Len(pwaiters) >= 2
        /\ top[pwaiters[1]] # top[t] /\ top[pwaiters[2]] # top[t]

\* The number of the call that task t is making or about to make
Arrival(t) == IF tpc[t] = "wait" THEN tseq[t] ELSE tcalls + 1

\* C26: on one client the exchanges are performed in the order in which the
\* requests arrived at the lock: a request starts its exchange only when no
\* request that arrived before it is still waiting.
C26_FirstComeFirstServed ==
    [][\A t \in Tasks :
          (tpc[t] # "exchange" /\ tpc'[t] = "exchange") =>
              \A u \in Tasks \ {t} : tpc[u] = "wait" => tseq[u] > Arrival(t)
      ]_vars

C26_Witness ==
    \E t, u \in Tasks :
        /\ tpc[t] = "exchange" /\ tseq[t] > 1
        /\ tpc[u] = "wait" /\ tseq[u] > tseq[t]
        /\ tcalls > tseq[u]

WRITE_SINGLE_REGISTER == 6
WRITE_MULTIPLE_REGISTERS == 16

\* C27: every write_register call that reaches the wire hands client.execute
\* function 0x10, quantity 1 and a one-element list holding the value; no
\* request is ever sent with function 0x06.
C27_SingleWriteUsesMultipleFunction ==
    /\ \A t \in InFlight :
          top[t] = "write_register" =>
              sent = <<WRITE_MULTIPLE_REGISTERS, 1, <<targ[t]>> >>
    /\ sent # <<>> => sent[1] # WRITE_SINGLE_REGISTER

C27_Witness ==
    \E t \in Tasks :
        /\ tpc[t] = "exchange" /\ top[t] = "write_register" /\ targ[t] = MaxArg
        /\ sent = <<16, 1, <<MaxArg>> >>

\* C34: once the shutdown has closed the client, every request that was
\* in flight or was waiting for the lock of the client at that moment
\* eventually ends, so a poll is never left blocked on the closed port.
Blocked(t) == ~busClient /\ tpc[t] \in {"wait", "exchange"}

C34_NoRequestBlockedAfterShutdown ==
    \A t \in Tasks : Blocked(t) ~> (tpc[t] = "idle")

\* the request in flight at the shutdown has ended and has released the
\* lock, and a request that was waiting is about to be resumed
C34_Witness ==
    \E t \in Tasks :
        /\ busDrops >= 1 /\ Blocked(t) /\ tpc[t] = "wait"
        /\ plock = 0 /\ pwaiters = <<t>>
        /\ tres[1] = "read_registers"

\* C36: the client is closed (by the last release or by close_all) only
\* between exchanges, never while a request/response exchange on it is in
\* flight.
C36_NoCloseDuringExchange ==
    [][(busClient /\ ~busClient') => InFlight = {}]_vars

(* ---------------------- BoilerDataUpdateCoordinator -------------------- *)

BlockBase == 16
BlockCount == 23
CircuitEnableAddr == 57

\* What a call of gateway.protocol.read_registers can do: return a list,
\* return None, raise asyncio.TimeoutError, raise another exception.
Raises == {"raise_timeout", "raise_error"}
ReadResults == {"list", "none"} \cup Raises

\* ModbusProtocol.read_registers as the coordinator sees it: None without a
\* client, otherwise the outcome of the exchange; it never raises.
read_registers(raw) ==
    IF raw = "no_client" THEN "none" ELSE read_registers_result(raw)

\* The behaviours a cycle draws from: a real client is driven by the wire,
\* a test double returns or raises what it was told to.
FailKinds == IF transport = "modbus" THEN (WireOutcomes \ {"ok"}) \cup {"no_client"} ELSE Raises
ThenKinds == IF transport = "modbus" THEN {"ok"} ELSE {"list", "none"}
AnyKinds == IF transport = "modbus" THEN WireOutcomes \cup {"no_client"} ELSE ReadResults

protocol_read(raw) == IF transport = "modbus" THEN read_registers(raw) ELSE raw

\* The j-th primary read of the cycle
PrimaryRaw(j) == IF j <= failFirst THEN failKind ELSE thenKind
PrimaryResult(j) == protocol_read(PrimaryRaw(j))

\* `for attempt in range(self.retry_count + 1)`
MaxAttempts_short(R) == R
MaxAttempts_long(R) == R + 2
MaxAttempts(R) == R + 1

\* The except clauses: asyncio.TimeoutError and Exception are handled by the
\* retry code; UpdateFailed (raised for a None result) is re-raised.
is_retryable_with_none(r) == r \in Raises \cup {"none"}
is_retryable(r) == r \in Raises

\* `for i, v in enumerate(regs): data[base + i] = v`
block_data(v) == [a \in {BlockBase + i : i \in 0..(BlockCount - 1)} |-> v]

\* `data[0x0039] = circuit_enable[0]`
with_circuit_enable(d, v) ==
    [a \in DOMAIN d \cup {CircuitEnableAddr} |-> IF a = CircuitEnableAddr THEN v ELSE d[a]]

NoData == [a \in {} |-> 0]

\* The for loop moves on to its next iteration, or ends and UpdateFailed is
\* raised after it.
next_iteration ==
    IF attempt + 1 < MaxAttempts(retry_count)
    THEN /\ attempt' = attempt + 1
         /\ cpc' = "primary"
    ELSE /\ cpc' = "failed"
         /\ UNCHANGED attempt

\* An except clause of the retry code: sleep 0.5 * (attempt + 1) and continue
\* while attempt < retry_count, otherwise fall through to the next iteration.
handle_error ==
    IF attempt < retry_count
    THEN /\ cpc' = "backoff"
         /\ sleeps' = Append(sleeps, attempt + 1)
         /\ UNCHANGED attempt
    ELSE /\ next_iteration
         /\ UNCHANGED sleeps

\* The scheduler starts a cycle: _async_update_data runs to its first await.
poll_start(k, fk, tk, v) ==
    /\ cpc = "idle" /\ cycles < MaxCycles
    /\ k \in 0..(retry_count + 1) /\ fk \in FailKinds \cup ThenKinds /\ tk \in ThenKinds
    /\ (k = 0) = (fk = tk)
    /\ failFirst' = k /\ failKind' = fk /\ thenKind' = tk /\ devVal' = v
    /\ attempt' = 0
    /\ hist' = <<>>
    /\ sleeps' = <<>>
    /\ data' = NoData
    /\ cpc' = IF MaxAttempts(retry_count) > 0 THEN "primary" ELSE "failed"
    /\ cacheAtStart' = cache
    /\ UNCHANGED <<retry_count, transport, cache, cycles, outcomes>>
    /\ UNCHANGED <<poolVars, busVars, restVars>>

\* The read of 0x0010..0x0026 returns or raises.
primary_done ==
    /\ cpc = "primary"
    /\ LET r == PrimaryResult(Len(hist) + 1) IN
       /\ hist' = Append(hist, <<r, "skipped", "skipped">>)
       /\ IF r = "list"
          THEN /\ data' = block_data(devVal)
               /\ cpc' = "secondary"
               /\ UNCHANGED <<attempt, sleeps>>
          ELSE /\ IF is_retryable(r)
                  THEN handle_error
                  ELSE /\ cpc' = "failed"
                       /\ UNCHANGED <<attempt, sleeps>>
               /\ UNCHANGED data
    /\ UNCHANGED <<retry_count, transport, cache, cacheAtStart, cycles, outcomes, failFirst, failKind,
                   thenKind, devVal>>
    /\ UNCHANGED <<poolVars, busVars, restVars>>

\* `self.gateway.cache = data`
published_merged(old, d) ==
    [a \in DOMAIN old \cup DOMAIN d |-> IF a \in DOMAIN d THEN d[a] ELSE old[a]]
published(old, d) == d

\* The read of 0x0039 ends the attempt in an except clause only when it
\* raises: `if circuit_enable:` skips a None and the attempt goes on.
secondary_fails_on_none(r) == r \in Raises \cup {"none"}
secondary_fails(r) == r \in Raises

\* `circuit_enable[0]`: the word the adapter holds when the read of 0x0039
\* is exchanged
circuit_enable_word_stale ==
    IF CircuitEnableAddr \in DOMAIN cacheAtStart THEN cacheAtStart[CircuitEnableAddr] ELSE 0
circuit_enable_word == device

\* The read of 0x0039 returns or raises; on a return the cache is replaced.
secondary_done_publish_first(raw) ==
    /\ cpc = "secondary" /\ raw \in AnyKinds
    /\ LET r == protocol_read(raw) IN
       /\ hist' = [hist EXCEPT ![Len(hist)] = <<@[1], r, raw>>]
       /\ cache' = published(cache, data)
       /\ IF r \in {"list", "none"}
          THEN /\ cpc' = "success"
               /\ UNCHANGED <<data, attempt, sleeps>>
          ELSE /\ handle_error
               /\ UNCHANGED data
    /\ UNCHANGED <<retry_count, transport, cacheAtStart, cycles, outcomes, failFirst, failKind, thenKind,
                   devVal>>
    /\ UNCHANGED <<poolVars, busVars, restVars>>
secondary_done(raw) ==
    /\ cpc = "secondary" /\ raw \in AnyKinds
    /\ LET r == protocol_read(raw) IN
       /\ hist' = [hist EXCEPT ![Len(hist)] = <<@[1], r, raw>>]
       /\ IF r = "list"
          THEN /\ data' = with_circuit_enable(data, circuit_enable_word)
               /\ cache' = published(cache, with_circuit_enable(data, circuit_enable_word))
               /\ cpc' = "success"
               /\ UNCHANGED <<attempt, sleeps>>
          ELSE IF ~secondary_fails(r)
          THEN /\ cache' = published(cache, data)
               /\ cpc' = "success"
               /\ UNCHANGED <<data, attempt, sleeps>>
          ELSE /\ handle_error
               /\ UNCHANGED <<data, cache>>
    /\ UNCHANGED <<retry_count, transport, cacheAtStart, cycles, outcomes, failFirst, failKind, thenKind,
                   devVal>>
    /\ UNCHANGED <<poolVars, busVars, restVars>>

\* asyncio.sleep returns and the loop continues.
backoff_done ==
    /\ cpc = "backoff"
    /\ next_iteration
    /\ UNCHANGED <<retry_count, transport, hist, sleeps, data, cache, cacheAtStart, cycles, outcomes,
                   failFirst, failKind, thenKind, devVal>>
    /\ UNCHANGED <<poolVars, busVars, restVars>>

\* _async_update_data is over: it returned the data or raised UpdateFailed
cycle_over_on_return(s) == s = "success"
cycle_over(s) == s \in {"success", "failed"}

\* _async_update_data has returned the data or raised UpdateFailed; the
\* coordinator is idle until the next tick.
poll_return ==
    /\ cycle_over(cpc)
    /\ cpc' = "idle"
    /\ cycles' = cycles + 1
    /\ outcomes' = Append(outcomes, cpc)
    /\ attempt' = 0 /\ hist' = <<>> /\ sleeps' = <<>> /\ data' = NoData
    /\ failFirst' = 0 /\ failKind' = "ok" /\ thenKind' = "ok" /\ devVal' = 0
    /\ cacheAtStart' = cache
    /\ UNCHANGED <<retry_count, transport, cache>>
    /\ UNCHANGED <<poolVars, busVars, restVars>>

InitPoll ==
    /\ PoolInit /\ BusInit /\ PollInit /\ device \in CEVals /\ GwIdle /\ SnapInit
    /\ ContactParked /\ ExtraParked

NextPoll ==
    \/ \E k \in 0..(MaxRetry + 1), fk, tk \in WireOutcomes \cup {"no_client"} \cup ReadResults,
          v \in Vals : poll_start(k, fk, tk, v)
    \/ primary_done
    \/ \E raw \in WireOutcomes \cup {"no_client"} \cup ReadResults : secondary_done(raw)
    \/ backoff_done
    \/ poll_return

SpecPoll == InitPoll /\ [][NextPoll]_vars

\* Every await of the cycle completes: the reads are bounded by the serial
\* timeout, asyncio.sleep returns, and a finished coroutine hands its result
\* back to the scheduler.
SpecPollLive ==
    /\ SpecPoll
    /\ WF_vars(primary_done)
    /\ WF_vars(\E raw \in WireOutcomes \cup {"no_client"} \cup ReadResults : secondary_done(raw))
    /\ WF_vars(backoff_done)
    /\ WF_vars(poll_return)

(* ------------------------- claims on the poll -------------------------- *)

Ended == cpc \in {"success", "failed"}

\* The primary read raises on its first failFirst attempts and then returns
\* a list, with failFirst between 1 and retry_count.
FailsThenSucceeds ==
    /\ failFirst \in 1..retry_count
    /\ \A j \in 1..failFirst : PrimaryResult(j) \in Raises
    /\ PrimaryResult(failFirst + 1) = "list"

C8_FailedAfterRPlusOne ==
    /\ Len(hist) <= retry_count + 1
    /\ (/\ Ended /\ failFirst >= retry_count + 1
        /\ \A j \in 1..failFirst : PrimaryResult(j) \in Raises) =>
           /\ cpc = "failed"
           /\ Len(hist) = retry_count + 1
           /\ \A j \in 1..Len(hist) : hist[j][1] \in Raises /\ hist[j][2] = "skipped"

C8_Witness ==
    /\ cpc = "failed" /\ retry_count >= 1 /\ failFirst = retry_count + 1
    /\ Len(hist) = retry_count + 1 /\ hist[1][1] \in Raises

\* C9: a primary read that returns None fails the poll at once: no secondary
\* read, no backoff sleep and no retry follow it, so a cycle whose first
\* primary read returns None makes exactly one read attempt.
C9_NoDataFailsAtOnce ==
    \A j \in 1..Len(hist) :
        hist[j][1] = "none" =>
            /\ cpc = "failed"
            /\ j = Len(hist)
            /\ hist[j][2] = "skipped"
            /\ Len(sleeps) = j - 1
            /\ (PrimaryResult(1) = "none" => j = 1)

C9_Witness ==
    /\ cpc = "failed" /\ retry_count >= 1
    /\ hist = << <<"none", "skipped", "skipped">> >> /\ sleeps = <<>>

\* C10: a TransportError on the wire during a poll (a read timeout or an
\* unparseable response at the client) is retried by the coordinator before
\* the poll is reported Failed.
C10_TransportErrorRetried ==
    (/\ Ended /\ transport = "modbus" /\ retry_count >= 1
     /\ failFirst >= 1 /\ failKind \in TransportErrors) =>
        Len(hist) >= 2

BlockAddrs == {BlockBase + i : i \in 0..(BlockCount - 1)}

\* C11: when a poll ends in Success the snapshot is the data of that poll and
\* nothing else: the addresses 0x0010..0x0026 with the words the primary
\* read returned, plus 0x0039 with the adapter's word exactly when the
\* secondary read returned a value; no entry of the previous snapshot
\* survives.
C11_SuccessReplacesSnapshot ==
    cpc = "success" =>
        LET secondary == hist[Len(hist)][2] IN
        /\ cache = data
        /\ DOMAIN cache = BlockAddrs \cup (IF secondary = "list" THEN {CircuitEnableAddr} ELSE {})
        /\ \A a \in BlockAddrs : cache[a] = devVal
        /\ secondary = "list" => cache[CircuitEnableAddr] = device

C11_Witness ==
    /\ cpc = "success"
    /\ CircuitEnableAddr \in DOMAIN cacheAtStart
    /\ CircuitEnableAddr \notin DOMAIN cache
    /\ cacheAtStart[BlockBase] # cache[BlockBase]

\* C12: while a poll runs, and when it has ended in Failed, the snapshot is
\* exactly what it was when the poll began.
C12_FailedPollKeepsSnapshot ==
    cpc \in {"primary", "secondary", "backoff", "failed"} => cache = cacheAtStart

C12_Witness ==
    /\ cpc = "failed" /\ cache = cacheAtStart /\ cache # NoData
    /\ Len(hist) >= 2 /\ hist[1][1] = "list" /\ hist[1][2] \in Raises

IllegalData == {"illegal_data_address", "illegal_data_value"}

\* C20: a Modbus exception response "illegal data address" or "illegal data
\* value" to a read of the poll is not retried: the poll is reported Failed
\* after that single attempt.
C20_IllegalDataFailsPoll ==
    (/\ Ended /\ transport = "modbus"
     /\ \E j \in 1..Len(hist) : PrimaryRaw(j) \in IllegalData \/ hist[j][3] \in IllegalData) =>
        (cpc = "failed" /\ Len(hist) = 1)

\* C31: when the primary read of an attempt returns the block and the
\* secondary read returns no value, the poll ends in Success on that attempt,
\* with no backoff after it, and the snapshot is the primary block alone.
C31_SecondaryNoneStillSucceeds ==
    (hist # <<>> /\ hist[Len(hist)][1] = "list" /\ hist[Len(hist)][2] = "none") =>
        /\ cpc = "success"
        /\ attempt = Len(hist) - 1
        /\ Len(sleeps) = Len(hist) - 1
        /\ cache = block_data(devVal)
        /\ CircuitEnableAddr \notin DOMAIN cache

C31_Witness ==
    /\ cpc = "success" /\ transport = "modbus"
    /\ Len(hist) = 1 /\ hist[1] = <<"list", "none", "timeout">>
    /\ cache = block_data(devVal)

Running == cpc \in {"primary", "secondary", "backoff"}

\* The previous cycle ended in Failed
LastFailed == outcomes # <<>> /\ outcomes[Len(outcomes)] = "failed"

\* Every read the cycle has made was answered with register values
AllAnswered == \A j \in 1..Len(hist) : hist[j][1] = "list" /\ hist[j][2] = "list"

\* C21: a cycle leaves Idle only to run, ends in exactly one of Success and
\* Failed, and from there the coordinator returns to Idle; every started
\* cycle does end and return to Idle; after a Failed cycle the next cycle can
\* start, and if the device answers its reads that cycle ends in Success.
C21_CycleEndsAndFailureDoesNotBlock ==
    /\ [][/\ cpc = "idle" => Running'
          /\ (Running /\ ~Running') => Ended'
          /\ Ended => (cpc' = "idle" /\ outcomes' = Append(outcomes, cpc))
       ]_vars
    /\ (cpc # "idle") ~> (cpc = "idle")
    /\ []((cpc = "idle" /\ LastFailed /\ cycles < MaxCycles) =>
             ENABLED (\E tk \in ThenKinds : poll_start(0, tk, tk, 0)))
    /\ []((Ended /\ LastFailed /\ AllAnswered) => cpc = "success")

C21_Witness ==
    /\ cpc = "success" /\ outcomes = <<"failed">>
    /\ Len(hist) = 1 /\ AllAnswered /\ cache # NoData

(* ------------------- BoilerGateway: the write helpers ------------------ *)

SetterKinds == {"set_circuit_enable_bit", "set_dhw_setpoint"}

\* What a write exchange can do; "no_client" is write_register finding
\* self.client unset.
WriteOutcomes == WireOutcomes \cup {"no_client"}

write_register(raw) ==
    IF raw = "no_client" THEN not_connected_result("write_register")
    ELSE write_register_result(raw)

\* bool(raw & (1 << bit))
bit_of(v, bit) == (v \div (2^bit)) % 2 = 1

\* `current | (1 << bit)` and `current & ~(1 << bit)`
with_bit(current, bit, enabled) ==
    IF enabled
    THEN IF bit_of(current, bit) THEN current ELSE current + 2^bit
    ELSE IF bit_of(current, bit) THEN current - 2^bit ELSE current

\* `self.cache.get(REGISTER_CIRCUIT_ENABLE, 0)`
cached_circuit_enable ==
    IF CircuitEnableAddr \in DOMAIN cache THEN cache[CircuitEnableAddr] ELSE 0

\* `self.cache[REGISTER_CIRCUIT_ENABLE] = newv`
patched(c, v) ==
    [a \in DOMAIN c \cup {CircuitEnableAddr} |-> IF a = CircuitEnableAddr THEN v ELSE c[a]]

\* A setter is called and runs to the await of write_register:
\* set_circuit_enable_bit computes the new word from the cached one,
\* set_dhw_setpoint hands its argument on.
setter_call(t, kind, bit, enabled) ==
    /\ spc[t] = "idle" /\ scalls < MaxSets
    /\ kind = "set_dhw_setpoint" => (bit = 0 /\ ~enabled)
    /\ spc' = [spc EXCEPT ![t] = "writing"]
    /\ sreq' = [sreq EXCEPT ![t] = <<kind, bit, enabled>>]
    /\ snewv' = [snewv EXCEPT ![t] =
                   IF kind = "set_circuit_enable_bit"
                   THEN with_bit(cached_circuit_enable, bit, enabled) ELSE 0]
    /\ sdev' = [sdev EXCEPT ![t] = device]
    /\ sseq' = [sseq EXCEPT ![t] = scalls + 1]
    /\ scalls' = scalls + 1
    /\ overlapped' = \E u \in Setters \ {t} : spc[u] = "writing"
    /\ UNCHANGED <<device, swire, sres>>
    /\ UNCHANGED <<poolVars, busVars, pollVars, snapVars, contactVars, extraVars>>

\* write_register returns, the writes being served by the client's lock in
\* arrival order: the adapter has taken the word when it answered, and may
\* or may not have taken it when the answer was lost; the setter patches
\* the cache on True.
write_done(t, raw, applied) ==
    /\ spc[t] = "writing"
    /\ raw # "no_client" => \A u \in Setters : spc[u] = "writing" => sseq[t] <= sseq[u]
    /\ raw = "ok" => applied
    /\ raw \in ModbusErrors \cup {"no_client"} => ~applied
    /\ LET result == write_register(raw)
           circuit == sreq[t][1] = "set_circuit_enable_bit" IN
       /\ device' = IF circuit /\ applied THEN snewv[t] ELSE device
       /\ cache' = IF circuit /\ result = "true" THEN patched(cache, snewv[t]) ELSE cache
       /\ sres' = [sres EXCEPT ![t] = result]
    /\ swire' = [swire EXCEPT ![t] = IF raw = "ok" THEN "ok" ELSE "failed"]
    /\ spc' = [spc EXCEPT ![t] = "idle"]
    /\ snewv' = [snewv EXCEPT ![t] = 0]
    /\ sdev' = [sdev EXCEPT ![t] = 0]
    /\ sseq' = [sseq EXCEPT ![t] = 0]
    /\ UNCHANGED <<sreq, scalls, overlapped>>
    /\ UNCHANGED <<retry_count, transport, cpc, attempt, hist, sleeps, data, cacheAtStart,
                   cycles, outcomes, failFirst, failKind, thenKind, devVal>>
    /\ UNCHANGED <<poolVars, busVars, snapVars, contactVars, extraVars>>

\* One boiler gateway over the pooled client, its coordinator and the
\* entities that call the setters.
InitGateway ==
    /\ PoolInit /\ BusInit /\ PollParked /\ device \in CEVals /\ GwIdle /\ SnapInit
    /\ ContactParked /\ ExtraParked

NextGateway ==
    \/ \E fk \in {"ok", "timeout"} : poll_start(IF fk = "ok" THEN 0 ELSE 1, fk, "ok", 0)
    \/ primary_done
    \/ \E raw \in {"ok", "timeout"} : secondary_done(raw)
    \/ poll_return
    \/ \E t \in Setters, kind \in SetterKinds, bit \in CircuitBits, enabled \in BOOLEAN :
          setter_call(t, kind, bit, enabled)
    \/ \E t \in Setters, raw \in WriteOutcomes, applied \in BOOLEAN : write_done(t, raw, applied)

SpecGateway == InitGateway /\ [][NextGateway]_vars

(* --------------------- claims on the write helpers --------------------- *)

\* C13: two set_circuit_enable_bit calls for different bits that ran
\* concurrently and both returned True have both taken effect: the adapter's
\* register and the cached word hold both bits as requested.
C13_ConcurrentBitsBothApplied ==
    (/\ scalls = 2 /\ overlapped
     /\ \A t \in Setters : sreq[t][1] = "none" \/
            (spc[t] = "idle" /\ sres[t] = "true" /\ sreq[t][1] = "set_circuit_enable_bit")
     /\ \A t, u \in Setters : (t # u /\ sreq[t][1] # "none" /\ sreq[u][1] # "none")
                                 => sreq[t][2] # sreq[u][2]) =>
        \A t \in Setters : sreq[t][1] # "none" =>
            /\ bit_of(device, sreq[t][2]) = sreq[t][3]
            /\ bit_of(cached_circuit_enable, sreq[t][2]) = sreq[t][3]

\* C16: the word set_circuit_enable_bit hands to write_register equals the
\* adapter's register as it is when the setter is called, except in the
\* requested bit.
C16_OnlyRequestedBitChanges ==
    \A t \in Setters :
        (spc[t] = "writing" /\ sreq[t][1] = "set_circuit_enable_bit") =>
            \A b \in CircuitBits \ {sreq[t][2]} : bit_of(snewv[t], b) = bit_of(sdev[t], b)

OnePollOneSetDone ==
    /\ cycles = 0 /\ cpc = "success" /\ hist[Len(hist)][2] = "list"
    /\ scalls = 1
    /\ \E t \in Setters : /\ sreq[t][1] = "set_circuit_enable_bit"
                          /\ spc[t] = "idle" /\ sres[t] = "true"

C37_PollKeepsOptimisticPatch ==
    OnePollOneSetDone =>
        (CircuitEnableAddr \in DOMAIN cache /\ cache[CircuitEnableAddr] = device)

\* the poll read 0x0039 before the write reached the adapter, and the
\* snapshot holds the written word
C37_Witness ==
    /\ OnePollOneSetDone
    /\ data[CircuitEnableAddr] # device
    /\ cache[CircuitEnableAddr] = device

(* ----------------- BoilerGateway: the typed getters -------------------- *)

REGISTER_CH_TEMP == 24
REGISTER_DHW_TEMP == 25
REGISTER_CH_SETPOINT_ACTIVE == 38
REGISTER_CH_SETPOINT == 49
REGISTER_CH_MIN == 51
StatusOffset == 48
InvalidMarker == 32767
REG_STATUS_VALID == 0
REG_STATUS_NOT_INITIALIZED == 1
REG_STATUS_NOT_SUPPORTED == -1
REG_STATUS_READ_WRITE_ERROR == -2

\* Registers whose getters are modelled, the words a snapshot may hold for
\* them (20.0 degrees, the invalid marker, a word with the high byte 0xFF)
\* and the status words (0, 1, -1, -2 as unsigned 16-bit words).
GetterRegs == {REGISTER_CH_TEMP, REGISTER_DHW_TEMP, REGISTER_CH_SETPOINT_ACTIVE,
               REGISTER_CH_SETPOINT, REGISTER_CH_MIN}
RawWords == {200, InvalidMarker, 65280}
StatusWords == {0, 1, 65535, 65534}
SetRaws == {500, 300}

\* The snapshots assigned to gateway.cache: one register with or without
\* its word, with or without its status word.
Snapshots ==
    {[a \in {} |-> 0]}
    \cup {[a \in {r} |-> w] : r \in GetterRegs, w \in RawWords}
    \cup {[a \in {r + StatusOffset} |-> st] : r \in GetterRegs, st \in StatusWords}
    \cup {[a \in {r, r + StatusOffset} |-> IF a = r THEN w ELSE st] :
             r \in GetterRegs, w \in RawWords, st \in StatusWords}

\* Optional values: None, or a value
None == <<>>
Some(v) == <<v>>

\* `if raw >= 0x8000: raw = raw - 0x10000`
i16(raw) == IF raw >= 32768 THEN raw - 65536 ELSE raw

\* self.cache.get(addr)
get_reg(c, addr) == IF addr \in DOMAIN c THEN Some(c[addr]) ELSE None

\* get_register_status: the signed status word at R + 0x30, None when the
\* snapshot has none
get_register_status(c, r) ==
    IF get_reg(c, r + StatusOffset) = None THEN None
    ELSE Some(i16(get_reg(c, r + StatusOffset)[1]))

\* The status test that opens a status-checking getter
status_blocks(status) ==
    /\ status # None
    /\ status[1] \in {REG_STATUS_NOT_SUPPORTED, REG_STATUS_READ_WRITE_ERROR,
                   REG_STATUS_NOT_INITIALIZED}

\* get_ch_temperature, in tenths of a degree
get_ch_temperature_value(c) ==
    IF status_blocks(get_register_status(c, REGISTER_CH_TEMP)) THEN None
    ELSE IF get_reg(c, REGISTER_CH_TEMP) \in {None, Some(InvalidMarker)} THEN None
    ELSE Some(i16(get_reg(c, REGISTER_CH_TEMP)[1]))

\* get_dhw_temperature, in tenths of a degree: the word is divided by 10 as
\* it is
get_dhw_temperature_value(c) ==
    IF status_blocks(get_register_status(c, REGISTER_DHW_TEMP)) THEN None
    ELSE IF get_reg(c, REGISTER_DHW_TEMP) \in {None, Some(InvalidMarker)} THEN None
    ELSE Some(get_reg(c, REGISTER_DHW_TEMP)[1])

\* get_ch_setpoint_active, in 1/256 of a degree
get_ch_setpoint_active_value(c) ==
    IF status_blocks(get_register_status(c, REGISTER_CH_SETPOINT_ACTIVE)) THEN None
    ELSE IF get_reg(c, REGISTER_CH_SETPOINT_ACTIVE) \in {None, Some(InvalidMarker)} THEN None
    ELSE Some(i16(get_reg(c, REGISTER_CH_SETPOINT_ACTIVE)[1]))

\* get_ch_min_limit, in degrees: the high byte, None when it is 0xFF
get_ch_min_limit_value(c) ==
    IF get_reg(c, REGISTER_CH_MIN) = None THEN None
    ELSE IF (get_reg(c, REGISTER_CH_MIN)[1] \div 256) % 256 = 255 THEN None
    ELSE Some((get_reg(c, REGISTER_CH_MIN)[1] \div 256) % 256)

\* get_ch_setpoint falls back on self._ch_setpoint_cache
unavailable_result_none(sticky) == None
unavailable_result(sticky) == sticky

\* The register 0x0031 cannot be decoded from the snapshot
setpoint_unavailable(c) ==
    \/ status_blocks(get_register_status(c, REGISTER_CH_SETPOINT))
    \/ get_reg(c, REGISTER_CH_SETPOINT) = None
    \/ get_reg(c, REGISTER_CH_SETPOINT) = Some(InvalidMarker)

\* get_ch_setpoint, in tenths of a degree
get_ch_setpoint_value(c, sticky) ==
    IF setpoint_unavailable(c) THEN unavailable_result(sticky)
    ELSE Some(i16(get_reg(c, REGISTER_CH_SETPOINT)[1]))

\* `self.gateway.cache = data`: a snapshot is assigned to the gateway.
cache_assigned(snapshot) ==
    /\ cache' = snapshot
    /\ cache # snapshot
    /\ pending' = None
    /\ got' = <<"none", None>>
    /\ gcalls' = 0
    /\ UNCHANGED <<ch_setpoint_cache, setpc, lastStored, sticky_before, set_result>>
    /\ UNCHANGED <<retry_count, transport, cpc, attempt, hist, sleeps, data, cacheAtStart,
                   cycles, outcomes, failFirst, failKind, thenKind, devVal>>
    /\ UNCHANGED <<poolVars, busVars, gwVars, contactVars, extraVars>>

\* set_ch_setpoint up to the await of write_register
set_ch_setpoint(value_raw) ==
    /\ setpc = "idle"
    /\ ch_setpoint_cache' = Some(value_raw)
    /\ lastStored' = Some(value_raw)
    /\ pending' = Some(value_raw)
    /\ got' = <<"none", None>>
    /\ gcalls' = 0
    /\ sticky_before' = ch_setpoint_cache
    /\ set_result' = "none"
    /\ setpc' = "writing"
    /\ UNCHANGED <<poolVars, busVars, pollVars, gwVars, contactVars, extraVars>>

\* write_register returns and set_ch_setpoint returns its result; the
\* value assigned before the write stays in self._ch_setpoint_cache.
set_ch_setpoint_done(raw) ==
    /\ setpc = "writing"
    /\ setpc' = "idle"
    /\ set_result' = write_register(raw)
    /\ sticky_before' = None
    /\ UNCHANGED <<ch_setpoint_cache, pending, lastStored, got, gcalls>>
    /\ UNCHANGED <<poolVars, busVars, pollVars, gwVars, contactVars, extraVars>>

\* self._ch_setpoint_cache once get_ch_setpoint has returned: assigned only
\* on a decode
sticky_after_get_cleared(c, sticky) ==
    IF setpoint_unavailable(c) THEN None
    ELSE Some(i16(get_reg(c, REGISTER_CH_SETPOINT)[1]))
sticky_after_get(c, sticky) ==
    IF setpoint_unavailable(c) THEN sticky
    ELSE Some(i16(get_reg(c, REGISTER_CH_SETPOINT)[1]))

\* An entity calls getter g: the call is counted while it repeats the
\* previous one.
getter_called(g) ==
    /\ ~(got[1] = g /\ gcalls >= MaxRepeat)
    /\ gcalls' = IF got[1] = g THEN gcalls + 1 ELSE 1

get_ch_setpoint ==
    /\ getter_called("get_ch_setpoint")
    /\ got' = <<"get_ch_setpoint", get_ch_setpoint_value(cache, ch_setpoint_cache)>>
    /\ ch_setpoint_cache' = sticky_after_get(cache, ch_setpoint_cache)
    /\ lastStored' = IF setpoint_unavailable(cache) THEN lastStored
                     ELSE Some(i16(get_reg(cache, REGISTER_CH_SETPOINT)[1]))
    /\ UNCHANGED <<setpc, pending, sticky_before, set_result>>
    /\ UNCHANGED <<poolVars, busVars, pollVars, gwVars, contactVars, extraVars>>

get_ch_temperature ==
    /\ getter_called("get_ch_temperature")
    /\ got' = <<"get_ch_temperature", get_ch_temperature_value(cache)>>
    /\ UNCHANGED <<ch_setpoint_cache, setpc, pending, lastStored, sticky_before, set_result>>
    /\ UNCHANGED <<poolVars, busVars, pollVars, gwVars, contactVars, extraVars>>

get_dhw_temperature ==
    /\ getter_called("get_dhw_temperature")
    /\ got' = <<"get_dhw_temperature", get_dhw_temperature_value(cache)>>
    /\ UNCHANGED <<ch_setpoint_cache, setpc, pending, lastStored, sticky_before, set_result>>
    /\ UNCHANGED <<poolVars, busVars, pollVars, gwVars, contactVars, extraVars>>

get_ch_setpoint_active ==
    /\ getter_called("get_ch_setpoint_active")
    /\ got' = <<"get_ch_setpoint_active", get_ch_setpoint_active_value(cache)>>
    /\ UNCHANGED <<ch_setpoint_cache, setpc, pending, lastStored, sticky_before, set_result>>
    /\ UNCHANGED <<poolVars, busVars, pollVars, gwVars, contactVars, extraVars>>

get_ch_min_limit ==
    /\ getter_called("get_ch_min_limit")
    /\ got' = <<"get_ch_min_limit", get_ch_min_limit_value(cache)>>
    /\ UNCHANGED <<ch_setpoint_cache, setpc, pending, lastStored, sticky_before, set_result>>
    /\ UNCHANGED <<poolVars, busVars, pollVars, gwVars, contactVars, extraVars>>

InitSnapshot ==
    /\ PoolInit /\ BusInit /\ PollParked /\ GwParked /\ SnapInit
    /\ ContactParked /\ ExtraParked

NextSnapshot ==
    \/ \E snapshot \in Snapshots : cache_assigned(snapshot)
    \/ \E value_raw \in SetRaws : set_ch_setpoint(value_raw)
    \/ \E raw \in WriteOutcomes : set_ch_setpoint_done(raw)
    \/ get_ch_setpoint
    \/ get_ch_temperature
    \/ get_dhw_temperature
    \/ get_ch_setpoint_active
    \/ get_ch_min_limit

SpecSnapshot == InitSnapshot /\ [][NextSnapshot]_vars

(* ------------------------ claims on the getters ------------------------ *)

C15_StickySetpoint ==
    (got[1] = "get_ch_setpoint" /\ setpoint_unavailable(cache)) => got[2] = lastStored

C15_Witness ==
    /\ got = <<"get_ch_setpoint", Some(200)>>
    /\ get_register_status(cache, REGISTER_CH_SETPOINT) = Some(REG_STATUS_NOT_SUPPORTED)
    /\ get_reg(cache, REGISTER_CH_SETPOINT) = Some(65280)

GetterOf(r) == IF r = REGISTER_CH_TEMP THEN "get_ch_temperature" ELSE "get_ch_min_limit"

\* C18: a typed getter other than the CH-setpoint getter returns unavailable
\* whenever the status word of its register is NotSupported, ReadWriteError
\* or NotInitialized, whatever the register holds.
C18_BadStatusMeansUnavailable ==
    \A r \in {REGISTER_CH_TEMP, REGISTER_CH_MIN} :
        (got[1] = GetterOf(r) /\ status_blocks(get_register_status(cache, r))) =>
            got[2] = None

Getters == {"get_ch_setpoint", "get_ch_temperature", "get_dhw_temperature",
            "get_ch_setpoint_active", "get_ch_min_limit"}

\* A step in which a getter is called
GetterStep == got'[1] \in Getters /\ gcalls' # gcalls

\* C32: a getter called again on an unchanged snapshot, with no setter call
\* in between, returns what it returned before; a getter call changes
\* neither the snapshot nor any gateway state, except that get_ch_setpoint
\* stores the value it decoded in the sticky CH-setpoint cache.
C32_GettersRepeatable ==
    [][GetterStep =>
          /\ got[1] = got'[1] => got'[2] = got[2]
          /\ cache' = cache /\ setpc' = setpc /\ pending' = pending
          /\ ch_setpoint_cache' # ch_setpoint_cache =>
                /\ got'[1] = "get_ch_setpoint"
                /\ ~setpoint_unavailable(cache)
                /\ ch_setpoint_cache' = got'[2]
      ]_vars

C32_Witness ==
    /\ got = <<"get_ch_setpoint", Some(500)>> /\ gcalls = 2
    /\ ch_setpoint_cache = Some(500) /\ setpoint_unavailable(cache)

\* The signed word-wide temperature getters and their registers
SignedGetterReg(g) ==
    CASE g = "get_ch_temperature" -> REGISTER_CH_TEMP
      [] g = "get_dhw_temperature" -> REGISTER_DHW_TEMP
      [] g = "get_ch_setpoint" -> REGISTER_CH_SETPOINT
      [] g = "get_ch_setpoint_active" -> REGISTER_CH_SETPOINT_ACTIVE

\* The last call was a signed temperature getter that decoded its register
DecodedSigned ==
    /\ got[1] \in {"get_ch_temperature", "get_dhw_temperature", "get_ch_setpoint",
                   "get_ch_setpoint_active"}
    /\ got[2] # None
    /\ get_reg(cache, SignedGetterReg(got[1])) \notin {None, Some(InvalidMarker)}
    /\ ~status_blocks(get_register_status(cache, SignedGetterReg(got[1])))

\* C33: a signed word-wide temperature getter (CH temperature, DHW
\* temperature, CH setpoint, CH active setpoint) that decodes a word of
\* 0x8000 or more other than the marker returns the scaled value of
\* word - 0x10000, which is negative.
C33_SignedTemperatureDecode ==
    (DecodedSigned /\ get_reg(cache, SignedGetterReg(got[1]))[1] >= 32768) =>
        /\ got[2][1] = get_reg(cache, SignedGetterReg(got[1]))[1] - 65536
        /\ got[2][1] < 0

\* C39: when the write issued by set_ch_setpoint fails, the sticky
\* CH-setpoint cache is left holding the value it had before the call (no
\* getter having decoded a new one meanwhile), so get_ch_setpoint does not
\* report the rejected setpoint.
C39_RejectedSetpointNotCached ==
    [][(setpc = "writing" /\ setpc' = "idle" /\ set_result' = "false"
           /\ got[1] # "get_ch_setpoint")
          => ch_setpoint_cache' = sticky_before]_vars

\* C38: after a successful poll every register a getter decodes, the
\* setpoint and limit registers 0x0031..0x0038 and the status words at
\* address + 0x30 included, is in the snapshot with the word the device held
\* during the poll.
DecodedRegisters == GetterRegs \cup {r + StatusOffset : r \in GetterRegs}

C38_SnapshotCoversDecodedRegisters ==
    (cpc = "success" /\ transport = "modbus") =>
        \A a \in DecodedRegisters : a \in DOMAIN cache /\ cache[a] = devVal

(* ------------- ContactSensorGateway and its coordinator ---------------- *)

REGISTER_CONTACT_CHANNELS_1_8 == 16
REGISTER_CONTACT_CHANNELS_9_10 == 17
MaxChannel == 10
FirstRegisterChannels == 8
DefaultChannelCount == 10

\* gateway.channel_count as read_device_info leaves it, and the words the
\* splitter may hold in its two bitfield registers
ChannelCounts == {None, Some(4), Some(MaxChannel)}
Words_1_8 == {0, 85, 255}
Words_9_10 == {0, 1, 2}

\* `channel_count = self.gateway.channel_count or 10`
effective_channel_count ==
    IF channel_count = None \/ channel_count = Some(0) THEN DefaultChannelCount
    ELSE channel_count[1]

\* The dictionary the poll builds from the registers it read
cache_data(w1, w2) ==
    IF effective_channel_count <= FirstRegisterChannels
    THEN [a \in {REGISTER_CONTACT_CHANNELS_1_8} |-> w1]
    ELSE [a \in {REGISTER_CONTACT_CHANNELS_1_8, REGISTER_CONTACT_CHANNELS_9_10} |->
             IF a = REGISTER_CONTACT_CHANNELS_1_8 THEN w1 ELSE w2]

\* get_channel_state: `if channel < 1 or channel > 10: raise ValueError`
channel_out_of_range_by_count(channel) ==
    channel < 1 \/ channel > (IF channel_count = None THEN MaxChannel ELSE channel_count[1])
channel_out_of_range(channel) == channel < 1 \/ channel > MaxChannel

\* The channel numbers entities and callers pass: the ten channels and the
\* two numbers next to them
Channels == 0..(MaxChannel + 1)

\* get_channel_state(channel) past the range check
get_channel_state_value(c, channel) ==
    IF channel_count # None /\ channel > channel_count[1] THEN None
    ELSE IF channel <= FirstRegisterChannels
    THEN IF get_reg(c, REGISTER_CONTACT_CHANNELS_1_8) = None THEN None
         ELSE Some(bit_of(get_reg(c, REGISTER_CONTACT_CHANNELS_1_8)[1], channel - 1))
    ELSE IF get_reg(c, REGISTER_CONTACT_CHANNELS_9_10) = None THEN None
         ELSE Some(bit_of(get_reg(c, REGISTER_CONTACT_CHANNELS_9_10)[1], channel - 9))

\* The scheduler starts a contact poll, which runs to the await of
\* read_input_registers.
contact_poll_start ==
    /\ kpc = "idle"
    /\ kpc' = "reading"
    /\ UNCHANGED <<channel_count, ccache, klast, kdata, kgot>>
    /\ UNCHANGED <<poolVars, busVars, pollVars, gwVars, snapVars, extraVars>>

\* read_input_registers returns: None raises UpdateFailed, a list is turned
\* into the dictionary the poll returns.
contact_read_done(raw, w1, w2) ==
    /\ kpc = "reading"
    /\ raw # "ok" => (w1 = 0 /\ w2 = 0)
    /\ effective_channel_count <= FirstRegisterChannels => w2 = 0
    /\ IF read_registers(raw) = "list"
       THEN /\ klast' = "success"
            /\ kdata' = cache_data(w1, w2)
       ELSE /\ klast' = "failed"
            /\ UNCHANGED kdata
    /\ kpc' = "idle"
    /\ kgot' = <<0, None, "none">>
    /\ UNCHANGED <<channel_count, ccache>>
    /\ UNCHANGED <<poolVars, busVars, pollVars, gwVars, snapVars, extraVars>>

\* An entity reads a channel.
get_channel_state(channel) ==
    /\ kgot' = IF channel_out_of_range(channel)
               THEN <<channel, None, "ValueError">>
               ELSE <<channel, get_channel_state_value(ccache, channel), "returned">>
    /\ UNCHANGED <<channel_count, ccache, kpc, klast, kdata>>
    /\ UNCHANGED <<poolVars, busVars, pollVars, gwVars, snapVars, extraVars>>

InitContact ==
    /\ PoolInit /\ BusInit /\ PollParked /\ GwParked /\ SnapInit
    /\ channel_count \in ChannelCounts /\ ContactIdle
    /\ ExtraParked

NextContact ==
    \/ contact_poll_start
    \/ \E raw \in WriteOutcomes, w1 \in Words_1_8, w2 \in Words_9_10 : contact_read_done(raw, w1, w2)
    \/ \E channel \in Channels : get_channel_state(channel)

SpecContact == InitContact /\ [][NextContact]_vars

\* C19: after a contact poll that ended in Success, get_channel_state(n),
\* for every n from 1 to the device's channel count, returns the polled bit
\* n-1 of register 0x0010 (n <= 8) or bit n-9 of register 0x0011 (n >= 9).
C19_PolledChannelsReadable ==
    (/\ klast = "success" /\ channel_count # None
     /\ kgot[1] \in 1..channel_count[1]) =>
        kgot[2] = IF kgot[1] <= FirstRegisterChannels
                  THEN Some(bit_of(kdata[REGISTER_CONTACT_CHANNELS_1_8], kgot[1] - 1))
                  ELSE Some(bit_of(kdata[REGISTER_CONTACT_CHANNELS_9_10], kgot[1] - 9))

\* The register that backs a channel in the snapshot
BackingRegister(channel) ==
    IF channel <= FirstRegisterChannels THEN REGISTER_CONTACT_CHANNELS_1_8
    ELSE REGISTER_CONTACT_CHANNELS_9_10

\* C30: get_channel_state(n) raises ValueError exactly when n < 1 or n > 10;
\* for n from 1 to 10 it returns, and what it returns is unavailable when n
\* is above the device's channel count or the register backing the channel
\* is not in the snapshot.
C30_ChannelRangeChecked ==
    kgot[3] # "none" =>
        /\ (kgot[3] = "ValueError") = (kgot[1] < 1 \/ kgot[1] > 10)
        /\ kgot[1] \in 1..10 =>
              /\ kgot[3] = "returned"
              /\ ((channel_count # None /\ kgot[1] > channel_count[1])
                     \/ BackingRegister(kgot[1]) \notin DOMAIN ccache) => kgot[2] = None

C30_Witness ==
    /\ channel_count = Some(4) /\ klast = "success"
    /\ kgot = <<MaxChannel, None, "returned">>

(* ---------------- BoilerGateway: the adapter commands ------------------ *)

REGISTER_COMMAND == 128
REGISTER_COMMAND_RESULT == 129
RebootCommand == 2
ResetErrorsCommand == 3

Commands == {"reboot_adapter", "reset_boiler_errors"}

\* The value each command writes to the command register
command_code(kind) == IF kind = "reboot_adapter" THEN RebootCommand ELSE ResetErrorsCommand

\* Words the result register 0x0081 may hold: 0, 1, 2, -1, -2, -3, -5
CommandResultWords == {0, 1, 2, 65535, 65534, 65533, 65531}

\* _read_command_result: the signed word, or None when the read fails
read_command_result(raw, word) ==
    IF read_registers(raw) = "list" THEN Some(i16(word)) ELSE None

\* What the command returns after it has read the result register
command_return_verified(result_code) == IF result_code = None THEN "false" ELSE "true"
command_return(result_code) == "true"

\* reboot_adapter / reset_boiler_errors run to the await of write_register.
command_call(kind) ==
    /\ mpc = "idle" /\ mcalls < MaxCommands
    /\ mcalls' = mcalls + 1
    /\ mpc' = "writing"
    /\ mkind' = kind
    /\ mreq' = << <<"write_register", REGISTER_COMMAND, command_code(kind)>> >>
    /\ mwraw' = "none" /\ mrraw' = "none" /\ mcode' = None /\ mret' = "none"
    /\ UNCHANGED <<routerVars, setupVars>>
    /\ UNCHANGED <<poolVars, busVars, pollVars, gwVars, snapVars, contactVars>>

\* write_register returns: False ends the call, True starts the 0.5 s sleep.
command_write_done(raw) ==
    /\ mpc = "writing"
    /\ mwraw' = raw
    /\ IF write_register(raw) = "false"
       THEN /\ mret' = "false"
            /\ mpc' = "idle"
       ELSE /\ mpc' = "sleeping"
            /\ UNCHANGED mret
    /\ UNCHANGED <<mkind, mreq, mrraw, mcode, mcalls>>
    /\ UNCHANGED <<routerVars, setupVars>>
    /\ UNCHANGED <<poolVars, busVars, pollVars, gwVars, snapVars, contactVars>>

\* asyncio.sleep(0.5) returns and _read_command_result runs to its await.
command_sleep_done ==
    /\ mpc = "sleeping"
    /\ mpc' = "reading"
    /\ mreq' = Append(mreq, <<"read_registers", REGISTER_COMMAND_RESULT, 1>>)
    /\ UNCHANGED <<mkind, mwraw, mrraw, mcode, mret, mcalls>>
    /\ UNCHANGED <<routerVars, setupVars>>
    /\ UNCHANGED <<poolVars, busVars, pollVars, gwVars, snapVars, contactVars>>

\* The read of 0x0081 returns; the result is logged and the call returns.
command_read_done(raw, word) ==
    /\ mpc = "reading"
    /\ raw # "ok" => word = 0
    /\ mrraw' = raw
    /\ mcode' = read_command_result(raw, word)
    /\ mret' = command_return(read_command_result(raw, word))
    /\ mpc' = "idle"
    /\ UNCHANGED <<mkind, mreq, mwraw, mcalls>>
    /\ UNCHANGED <<routerVars, setupVars>>
    /\ UNCHANGED <<poolVars, busVars, pollVars, gwVars, snapVars, contactVars>>

InitCommand ==
    /\ PoolInit /\ BusInit /\ PollParked /\ GwParked /\ SnapInit /\ ContactParked
    /\ CommandIdle /\ dev_word = 0 /\ RouterIdle /\ SetupIdle

NextCommand ==
    \/ \E kind \in Commands : command_call(kind)
    \/ \E raw \in WriteOutcomes : command_write_done(raw)
    \/ command_sleep_done
    \/ \E raw \in WriteOutcomes, word \in CommandResultWords : command_read_done(raw, word)

SpecCommand == InitCommand /\ [][NextCommand]_vars

ContactSplitterType == 89
BoilerTypes == {20, 21, 22}

\* Type bytes and channel bytes a device may report in register 0x0003
TypeBytes == {0, 17, 20, 21, 22, 80, 89, 255}
ChannelBytes == {1, 10}
DeviceWords == {t * 256 + c : t \in TypeBytes, c \in ChannelBytes}

\* `device_type = (regs[3] >> 8) & 0xFF`
device_type(word) == (word \div 256) % 256

\* The parameters of BoilerGateway.__init__ and of
\* ContactSensorGateway.__init__ after self
constructor_parameters(cls) == {"protocol", "slave_id"}

\* The keyword arguments the router passes to either constructor
router_keywords == {"debug_modbus"}

\* The call `cls(protocol, slave_id, debug_modbus=debug_modbus)`: the new
\* gateway, or TypeError for a keyword the constructor does not take
construct(cls) ==
    IF router_keywords \subseteq constructor_parameters(cls) THEN cls ELSE "TypeError"

\* create_device_gateway from the result of its read to the constructor call
route(regs, word) ==
    IF regs # "list" THEN "ValueError"
    ELSE IF device_type(word) = ContactSplitterType THEN construct("ContactSensorGateway")
    ELSE IF device_type(word) \in BoilerTypes THEN construct("BoilerGateway")
    ELSE "ValueError"

\* create_device_gateway runs to the await of read_registers(slave, 0, 4).
create_device_gateway ==
    /\ rpc = "idle"
    /\ rpc' = "reading"
    /\ rraw' = "none"
    /\ routed' = "none"
    /\ UNCHANGED dev_word
    /\ UNCHANGED <<cmdVars, setupVars>>
    /\ UNCHANGED <<poolVars, busVars, pollVars, gwVars, snapVars, contactVars>>

\* The read returns and the router raises or calls a constructor; the
\* constructor call raises, so read_device_info is never reached.
router_read_done(raw) ==
    /\ rpc = "reading"
    /\ rraw' = raw
    /\ routed' = route(read_registers(raw), dev_word)
    /\ rpc' = "idle"
    /\ UNCHANGED dev_word
    /\ UNCHANGED <<cmdVars, setupVars>>
    /\ UNCHANGED <<poolVars, busVars, pollVars, gwVars, snapVars, contactVars>>

InitRouter ==
    /\ PoolInit /\ BusInit /\ PollParked /\ GwParked /\ SnapInit /\ ContactParked
    /\ CommandIdle /\ dev_word \in DeviceWords /\ RouterIdle /\ SetupIdle

NextRouter ==
    \/ create_device_gateway
    \/ \E raw \in WriteOutcomes : router_read_done(raw)

SpecRouter == InitRouter /\ [][NextRouter]_vars

\* C29: for a device that answers the read of 0x0000..0x0003, a type byte
\* outside {0x14, 0x15, 0x16, 0x59} makes the router raise ValueError, a type
\* byte 0x14, 0x15 or 0x16 makes it yield a BoilerGateway, and 0x59 makes it
\* yield a ContactSensorGateway.
C29_RouterYieldsGatewayForType ==
    (rpc = "idle" /\ rraw = "ok") =>
        LET ty == device_type(dev_word) IN
        /\ ty \notin {20, 21, 22, 89} => routed = "ValueError"
        /\ ty \in {20, 21, 22} => routed = "BoilerGateway"
        /\ ty = 89 => routed = "ContactSensorGateway"

(* ---------------------------- async_setup_entry ------------------------ *)

\* The keyword arguments async_setup_entry passes to create_device_gateway
setup_keywords == {"debug_modbus", "retry_count"}

\* The parameters create_device_gateway takes
router_parameters == {"protocol", "slave_id", "debug_modbus"}

\* Binding the arguments of the call of create_device_gateway
call_router == IF setup_keywords \subseteq router_parameters THEN "called" ELSE "TypeError"

\* No call of async_setup_entry is between its first and its last step
SetupQuiet == setup_stage \in {"none", "failed"} /\ \A c \in Callers : pc[c] = "idle"

\* async_setup_entry(entry) runs into get_protocol(port).
async_setup_entry(c) ==
    /\ SetupQuiet
    /\ get_protocol_enter(c)
    /\ setup_entry' = c
    /\ setup_stage' = "get_protocol"
    /\ setup_why' = "none"
    /\ ref_before' = get_reference_count(portOf(c))
    /\ UNCHANGED <<busVars, pollVars, gwVars, snapVars, contactVars, cmdVars, routerVars>>

\* get_protocol has returned or raised: ConnectionError makes the handler
\* return False; otherwise it calls create_device_gateway, whose unknown
\* keyword raises TypeError out of the handler before the router runs. No
\* path out of the handler calls release_protocol.
async_setup_entry_resumed(c) ==
    /\ setup_entry = c /\ setup_stage = "get_protocol" /\ pc[c] = "idle"
    /\ IF held[c] = 0
       THEN setup_stage' = "failed" /\ setup_why' = "get_protocol"
       ELSE IF call_router = "TypeError"
       THEN setup_stage' = "failed" /\ setup_why' = "TypeError"
       ELSE setup_stage' = "detect" /\ UNCHANGED setup_why
    /\ UNCHANGED <<setup_entry, ref_before>>
    /\ UNCHANGED <<protocols, mlock, client, instPort, nextInst, serialOpen, pc, held, ops,
                   shutPc, toClose, drops, shutdowns, reconnects, connectCalls,
                   disconnectCalls, acqCalls, relCalls, phase, raced, relRaced>>
    /\ UNCHANGED <<busVars, pollVars, gwVars, snapVars, contactVars, cmdVars, routerVars>>

InitSetup == PoolInit /\ BusInit /\ PollParked /\ RestParked

NextSetup ==
    \/ \E c \in Callers : async_setup_entry(c)
    \/ \E c \in Callers, connected \in BOOLEAN : get_protocol_connect_done(c, connected)
    \/ \E c \in Callers : async_setup_entry_resumed(c)

SpecSetup == InitSetup /\ [][NextSetup]_vars

\* C35: when async_setup_entry fails after get_protocol has handed it the
\* port's client, the reference it took is given back: the port's reference
\* count is again what it was when the handler was called.
C35_FailedSetupGivesReferenceBack ==
    (setup_stage = "failed" /\ setup_why # "get_protocol") =>
        get_reference_count(portOf(setup_entry)) = ref_before

====
